---- MODULE Spec2Model ----
(***************************************************************************)
(* A model of the magic-four-squared word-square search and its two        *)
(* validators (src/cli/modules/MagicSquareFinder.js).                      *)
(*                                                                         *)
(* A word is a sequence of letters.  JavaScript indexes a string past its  *)
(* end as undefined, and Array.prototype.join writes undefined as the      *)
(* empty string: both are modelled (CharAt, Join), so that word lists of   *)
(* mixed length behave as they do in the program.                          *)
(***************************************************************************)
EXTENDS Naturals, Sequences, FiniteSets

VARIABLES
    pc,            \* position of the caller: idle, shuffle, loop, done, validated
    words,         \* the word list argument
    maxResults,    \* the maxResults argument
    wordSet,       \* new Set(words), in insertion order
    shuffledWords, \* the array being shuffled, then iterated
    si,            \* shuffleArray's loop index i
    i,             \* findMagicSquares' loop index i
    results,       \* the results array
    vk,            \* which returned square was last passed to validate (0: none yet)
    vres,          \* what that validate(square) call returned
    callKind,      \* validator specification: which validator was called last
    callGrid,      \* validator specification: the grid argument of isValidMagicSquare
    callSet,       \* validator specification: the wordSet argument of isValidMagicSquare
    callSquare,    \* validator specification: the square argument of validate
    callResult,    \* validator specification: what the call returned (or that it threw)
    callChar,      \* validator specification: the char argument of findWordsStartingWith
    callWords,     \* validator specification: what findWordsStartingWith returned
    guess,         \* feedback specification: the guess argument of checkAnswer
    answer,        \* feedback specification: the answer argument of checkAnswer
    fbResult,      \* feedback specification: what checkAnswer returned (or that it threw)
    puzzle,        \* GameStateManager: this.puzzle (NoPuzzle before the constructor ran)
    state,         \* GameStateManager: this.state
    localStorage,  \* the browser's localStorage: the item stored under 'gameState'
    lastCall,      \* the last GameStateManager call: its name, argument and return value
    callFirst,     \* validator specification: the firstWord argument of buildMagicSquare
    callBuilt,     \* validator specification: what buildMagicSquare returned
    callGated,     \* validator specification: the grids that call handed to the gate
    retryPc,       \* retryWithBackoff: where the call stands
    retryI,        \* retryWithBackoff: the loop index i
    maxRetries,    \* retryWithBackoff: the argument maxRetries
    baseDelay,     \* retryWithBackoff: the argument baseDelay
    fnPending,     \* retryWithBackoff: the calls of fn that have not settled
    fnCalls,       \* retryWithBackoff: how each call of fn settled, in order
    delays,        \* retryWithBackoff: the delays given to setTimeout, in order
    retryResult,   \* retryWithBackoff: how its promise settled
    fresh,         \* a second GameStateManager of the same puzzle: its loadState call
    selectedCell,  \* GridRenderer: this.selectedCell
    clearTimers    \* the pending 2500 ms timers: the result.feedback each callback holds

finderVars == <<pc, words, maxResults, wordSet, shuffledWords, si, i, results, vk, vres>>
validatorVars == <<callKind, callGrid, callSet, callSquare, callResult, callChar, callWords>>
feedbackVars == <<guess, answer, fbResult>>
gameVars == <<puzzle, state, localStorage, lastCall>>
clientVars == <<feedbackVars, gameVars>>
buildVars == <<callFirst, callBuilt, callGated>>
retryVars == <<retryPc, retryI, maxRetries, baseDelay, fnPending, fnCalls, delays, retryResult>>
persistVars == <<fresh>>
uiVars == <<selectedCell, clearTimers>>
otherVars == <<buildVars, retryVars, persistVars, uiVars>>
vars == <<finderVars, validatorVars, clientVars, otherVars>>

----------------------------------------------------------------------------
(* Bounds and input domains *)

MaxWords == 4
MaxM == 2

\* the side of the grid: the literal 4 of the loops of MagicSquareFinder.js
GridSize == 4

\* the value of an out-of-range string or array index
UNDEF == "undefined"

\* 4-letter words over two letters: they form several word squares, some
\* sharing a first word, and AAAA alone gives a symmetric grid of equal rows
FourLetterWords ==
    { <<"A","A","A","B">>, <<"A","A","B","A">>, <<"A","B","A","A">>,
      <<"B","A","A","A">>, <<"A","A","A","A">> }

\* the four of them that have a B
SquareWords == FourLetterWords \ { <<"A","A","A","A">> }

\* words of other lengths, the empty string among them
MixedWords ==
    { <<>>, <<"A","A","B">>, <<"A","B","A">>, <<"B","A","A">> }

\* the lists of at most n words of S without a repeated word: what the loader
\* hands over (WordListLoader.load removes duplicates)
DistinctLists(S, n) ==
    { ws \in UNION { [1..k -> S] : k \in 0..n } :
        \A x, y \in 1..Len(ws) : x # y => ws[x] # ws[y] }

\* lists that repeat their first word at the end: a caller that did not
\* deduplicate
RepeatingLists(S, n) ==
    { ws \o <<ws[1]>> : ws \in DistinctLists(S, n - 1) \ {<<>>} }

WordLists ==
    DistinctLists(FourLetterWords, MaxWords)
        \cup RepeatingLists(SquareWords, MaxWords)
        \cup DistinctLists(MixedWords, MaxWords)

----------------------------------------------------------------------------
(* Strings, sets and grids as JavaScript treats them *)

Range(s) == { s[k] : k \in 1..Len(s) }

\* word[j], j counted from 0
CharAt(w, j) == IF j < Len(w) THEN w[j + 1] ELSE UNDEF

RECURSIVE Join(_)
\* row.join(''): undefined and '' elements contribute nothing
Join(row) ==
    IF row = <<>> THEN <<>>
    ELSE IF Head(row) \in {UNDEF, ""} THEN Join(Tail(row))
    ELSE <<Head(row)>> \o Join(Tail(row))

RECURSIVE SetOf(_)
\* new Set(words): first occurrences, in insertion order
SetOf(ws) ==
    IF ws = <<>> THEN <<>>
    ELSE LET init == SetOf(SubSeq(ws, 1, Len(ws) - 1))
             last == ws[Len(ws)]
         IN IF last \in Range(init) THEN init ELSE Append(init, last)

\* wordSet.has(w)
Has(set, w) == \E k \in 1..Len(set) : set[k] = w

\* Array(4).fill(null).map(() => Array(4).fill(''))
EmptyGrid == [r \in 1..GridSize |-> [c \in 1..GridSize |-> ""]]

\* for (j = 0; j < 4; j++) grid[r][j] = word[j]
PlaceRow(grid, r, w) ==
    [grid EXCEPT ![r + 1] = [c \in 1..GridSize |-> CharAt(w, c - 1)]]

\* grid[r][c], both counted from 0
Cell(grid, r, c) == grid[r + 1][c + 1]

RowWord(grid, r) == Join(grid[r + 1])
ColWord(grid, c) == Join([r \in 1..GridSize |-> grid[r][c + 1]])

----------------------------------------------------------------------------
(* MagicSquareFinder.isValidMagicSquare(grid, wordSet) *)

\* lines 140-146: the symmetry loops find some grid[i][j] !== grid[j][i]
Asymmetric(grid) ==
    \E r \in 0..GridSize - 1 : \E c \in 0..GridSize - 1 :
        Cell(grid, r, c) # Cell(grid, c, r)

\* the words array collected from the rows
RowWords(grid) == [r \in 1..GridSize |-> RowWord(grid, r - 1)]

\* a validator that forgets the uniqueness check of lines 158-162
isValidMagicSquare_NoUniqueness(grid, set) ==
    IF Asymmetric(grid) THEN FALSE
    ELSE IF \E r \in 0..GridSize - 1 : ~Has(set, RowWord(grid, r)) THEN FALSE
    ELSE IF \E c \in 0..GridSize - 1 : ~Has(set, ColWord(grid, c)) THEN FALSE
    ELSE TRUE

\* a validator that forgets the symmetry check of lines 140-146
isValidMagicSquare_NoSymmetry(grid, set) ==
    IF \E r \in 0..GridSize - 1 : ~Has(set, RowWord(grid, r)) THEN FALSE
    ELSE IF Cardinality(Range(RowWords(grid))) # GridSize THEN FALSE
    ELSE IF \E c \in 0..GridSize - 1 : ~Has(set, ColWord(grid, c)) THEN FALSE
    ELSE TRUE

isValidMagicSquare(grid, set) ==
    IF Asymmetric(grid) THEN FALSE
    ELSE IF \E r \in 0..GridSize - 1 : ~Has(set, RowWord(grid, r)) THEN FALSE
    ELSE IF Cardinality(Range(RowWords(grid))) # GridSize THEN FALSE
    ELSE IF \E c \in 0..GridSize - 1 : ~Has(set, ColWord(grid, c)) THEN FALSE
    ELSE TRUE

----------------------------------------------------------------------------
(* MagicSquareFinder.findWordsStartingWith and buildMagicSquare *)

\* a filter that keeps the words that have char anywhere
findWordsStartingWith_Containing(char, set) ==
    SelectSeq(set, LAMBDA w : char \in Range(w))

\* Array.from(wordSet).filter(word => word[0] === char)
findWordsStartingWith(char, set) ==
    SelectSeq(set, LAMBDA w : CharAt(w, 0) = char)

\* the null that buildMagicSquare returns when it finds nothing
Null == [grid |-> <<>>, words |-> <<>>]

\* Each loop returns the square it found (or Null) and the grid as the loop
\* left it: the grid is one array, written in place by every candidate.
\* It returns as well the grids that it handed to isValidMagicSquare at
\* line 109 (gated), which the code keeps nowhere.
\* The body of each loop is an operator of its own (Word4Body, ...), taking
\* the grid with the candidate's row already placed.
RECURSIVE Word4Loop(_, _, _, _, _, _, _)

\* lines 108-114, given the grid g with word4 placed in row 3
Word4Body(g, set, firstWord, word2, word3, cands, k) ==
    IF isValidMagicSquare(g, set)
    THEN [square |-> [grid |-> g, words |-> <<firstWord, word2, word3, cands[k]>>],
          grid |-> g, gated |-> {g}]
    ELSE LET rest == Word4Loop(g, set, firstWord, word2, word3, cands, k + 1)
         IN [rest EXCEPT !.gated = rest.gated \cup {g}]

\* a search that returns the first fourth word without the gate of line 109
Word4Loop_NoGate(grid, set, firstWord, word2, word3, cands, k) ==
    IF k > Len(cands) THEN [square |-> Null, grid |-> grid, gated |-> {}]
    ELSE [square |-> [grid |-> PlaceRow(grid, 3, cands[k]),
                      words |-> <<firstWord, word2, word3, cands[k]>>],
          grid |-> PlaceRow(grid, 3, cands[k]), gated |-> {}]

\* lines 102-115: for (const word4 of word4Candidates), from candidate k on
Word4Loop(grid, set, firstWord, word2, word3, cands, k) ==
    IF k > Len(cands) THEN [square |-> Null, grid |-> grid, gated |-> {}]
    ELSE Word4Body(PlaceRow(grid, 3, cands[k]), set, firstWord, word2, word3, cands, k)

RECURSIVE Word3Loop(_, _, _, _, _, _)

\* what follows the word4 loop: its return leaves the function, its end
\* goes on to the next word3
Word3After(inner, set, firstWord, word2, cands, k) ==
    IF inner.square # Null THEN inner
    ELSE LET rest == Word3Loop(inner.grid, set, firstWord, word2, cands, k + 1)
         IN [rest EXCEPT !.gated = rest.gated \cup inner.gated]

\* the word3 loop without the check of line 97
Word3Body_NoCrossCheck(g, set, firstWord, word2, cands, k) ==
    IF Cell(g, 2, 0) # CharAt(firstWord, 2)
    THEN Word3Loop(g, set, firstWord, word2, cands, k + 1)
    ELSE Word3After(Word4Loop(g, set, firstWord, word2, cands[k],
                              findWordsStartingWith(CharAt(firstWord, 3), set), 1),
                    set, firstWord, word2, cands, k)

\* lines 95-115, given the grid g with word3 placed in row 2
Word3Body(g, set, firstWord, word2, cands, k) ==
    IF Cell(g, 2, 0) # CharAt(firstWord, 2)
    THEN Word3Loop(g, set, firstWord, word2, cands, k + 1)
    ELSE IF Cell(g, 2, 1) # CharAt(word2, 2)
    THEN Word3Loop(g, set, firstWord, word2, cands, k + 1)
    ELSE Word3After(Word4Loop(g, set, firstWord, word2, cands[k],
                              findWordsStartingWith(CharAt(firstWord, 3), set), 1),
                    set, firstWord, word2, cands, k)

\* lines 89-116: for (const word3 of word3Candidates), from candidate k on
Word3Loop(grid, set, firstWord, word2, cands, k) ==
    IF k > Len(cands) THEN [square |-> Null, grid |-> grid, gated |-> {}]
    ELSE Word3Body(PlaceRow(grid, 2, cands[k]), set, firstWord, word2, cands, k)

RECURSIVE Word2Loop(_, _, _, _, _)

\* what follows the word3 loop
Word2After(inner, set, firstWord, cands, k) ==
    IF inner.square # Null THEN inner
    ELSE LET rest == Word2Loop(inner.grid, set, firstWord, cands, k + 1)
         IN [rest EXCEPT !.gated = rest.gated \cup inner.gated]

\* lines 83-116, given the grid g with word2 placed in row 1
Word2Body(g, set, firstWord, cands, k) ==
    IF Cell(g, 1, 0) # CharAt(firstWord, 1)
    THEN Word2Loop(g, set, firstWord, cands, k + 1)
    ELSE Word2After(Word3Loop(g, set, firstWord, cands[k],
                              findWordsStartingWith(CharAt(firstWord, 2), set), 1),
                    set, firstWord, cands, k)

\* lines 77-117: for (const word2 of word2Candidates), from candidate k on
Word2Loop(grid, set, firstWord, cands, k) ==
    IF k > Len(cands) THEN [square |-> Null, grid |-> grid, gated |-> {}]
    ELSE Word2Body(PlaceRow(grid, 1, cands[k]), set, firstWord, cands, k)

\* lines 59-120: the whole search under one first word
SearchUnder(firstWord, set) ==
    Word2Loop(PlaceRow(EmptyGrid, 0, firstWord), set, firstWord,
              findWordsStartingWith(CharAt(firstWord, 1), set), 1)

\* lines 59-120
buildMagicSquare(firstWord, set) == SearchUnder(firstWord, set).square

----------------------------------------------------------------------------
(* MagicSquareFinder.validate(square)                                      *)
(*                                                                         *)
(* The argument is any JavaScript value.  A value is modelled by its kind  *)
(* and, for arrays, its elements:                                          *)
(*   square : [kind : null | number | object, grid, words]                 *)
(*   grid   : [kind : missing | string | array, rows : Seq(row)]           *)
(*   row    : [kind : null | array, cells : Seq(character)]                *)
(*   words  : [kind : missing | array, items : Seq(word)]                  *)
(* Indexing null or undefined throws a TypeError; indexing an array past   *)
(* its end gives undefined.                                                *)

\* an entry of the errors array: the message, and the indices it names
Msg(msg) == [msg |-> msg]
RowErr(msg, r) == [msg |-> msg, i |-> r]
CellErr(msg, r, c) == [msg |-> msg, i |-> r, j |-> c]

\* square.grid[r]: undefined past the end of the array
GridRow(rows, r) == IF r < Len(rows) THEN rows[r + 1] ELSE [kind |-> "null", cells |-> <<>>]

RowIsArrayOf4(row) == row.kind = "array" /\ Len(row.cells) = GridSize

RECURSIVE SymmetryLoop(_, _, _, _)
\* the loops of lines 198-209, from (r, c) on; errs is the errors array so far
SymmetryLoop(rows, r, c, errs) ==
    IF r >= GridSize THEN [threw |-> FALSE, errors |-> errs]
    ELSE IF ~RowIsArrayOf4(GridRow(rows, r))
    THEN SymmetryLoop(rows, r + 1, 0,
             Append(errs, RowErr("Row must have 4 characters", r)))
    ELSE IF c >= GridSize THEN SymmetryLoop(rows, r + 1, 0, errs)
    ELSE IF GridRow(rows, c).kind = "null"
    THEN [threw |-> TRUE, errors |-> errs]
    ELSE IF CharAt(GridRow(rows, r).cells, c) # CharAt(GridRow(rows, c).cells, r)
    THEN SymmetryLoop(rows, r, c + 1, Append(errs, CellErr("Grid is not symmetric", r, c)))
    ELSE SymmetryLoop(rows, r, c + 1, errs)

\* a words check that compares the number of distinct words with 3
WordsErrors_WrongCount(w) ==
    IF w.kind # "array" THEN <<Msg("Square must have a words array")>>
    ELSE IF Len(w.items) # GridSize
    THEN <<Msg("Square must have exactly 4 words")>>
    ELSE IF Cardinality(Range(w.items)) # GridSize - 1
    THEN <<Msg("All words must be unique (found duplicates)")>>
    ELSE <<>>

\* lines 211-221
WordsErrors(w) ==
    IF w.kind # "array" THEN <<Msg("Square must have a words array")>>
    ELSE IF Len(w.items) # GridSize
    THEN <<Msg("Square must have exactly 4 words")>>
    ELSE IF Cardinality(Range(w.items)) # GridSize
    THEN <<Msg("All words must be unique (found duplicates)")>>
    ELSE <<>>

Returned(errs) == [threw |-> FALSE, valid |-> errs = <<>>, errors |-> errs]
Thrown == [threw |-> TRUE, valid |-> FALSE, errors |-> <<>>]

validate(square) ==
    IF square.kind # "object"
    THEN Returned(<<Msg("Square must be an object")>>)
    ELSE IF square.grid.kind # "array"
    THEN Returned(<<Msg("Square must have a grid array")>>)
    ELSE LET rows == square.grid.rows
             e1 == IF Len(rows) # GridSize
                   THEN <<Msg("Grid must have 4 rows")>> ELSE <<>>
             sym == SymmetryLoop(rows, 0, 0, e1)
         IN IF sym.threw THEN Thrown
            ELSE Returned(sym.errors \o WordsErrors(square.words))

\* a square object as buildMagicSquare returns it
AsObject(sq) ==
    [kind |-> "object",
     grid |-> [kind |-> "array",
               rows |-> [r \in 1..Len(sq.grid) |-> [kind |-> "array", cells |-> sq.grid[r]]]],
     words |-> [kind |-> "array", items |-> sq.words]]

----------------------------------------------------------------------------
(* AnswerChecker.normalize(word) and AnswerChecker.checkAnswer(guess, answer) *)
(* A string is the sequence of its code points; "a" and "b" are the lower   *)
(* case of "A" and "B", " " is white space, "ring" is the combining ring    *)
(* that NFC composes with a preceding "A" into the one code point "A-ring". *)

RECURSIVE TrimStart(_)
TrimStart(w) == IF w # <<>> /\ Head(w) = " " THEN TrimStart(Tail(w)) ELSE w

RECURSIVE TrimEnd(_)
TrimEnd(w) ==
    IF w # <<>> /\ w[Len(w)] = " " THEN TrimEnd(SubSeq(w, 1, Len(w) - 1)) ELSE w

\* word.trim()
trim(w) == TrimEnd(TrimStart(w))

\* the letters with a lower case that the model's strings and grids use;
\* Hebrew letters, white space and the empty string have none
UpperCaseOf(c) ==
    CASE c = "a" -> "A" [] c = "b" -> "B" [] c = "c" -> "C" [] c = "d" -> "D"
      [] c = "e" -> "E" [] c = "r" -> "R" [] c = "t" -> "T" [] c = "x" -> "X"
      [] OTHER -> c

\* word.toUpperCase()
toUpperCase(w) == [k \in 1..Len(w) |-> UpperCaseOf(w[k])]

RECURSIVE NFC(_)
\* word.normalize('NFC')
NFC(w) ==
    IF Len(w) < 2 THEN w
    ELSE IF w[1] = "A" /\ w[2] = "ring" THEN <<"A-ring">> \o NFC(SubSeq(w, 3, Len(w)))
    ELSE <<w[1]>> \o NFC(Tail(w))

\* lines 379-384; !word holds of the empty string
normalize(word) == IF word = <<>> THEN <<>> ELSE NFC(toUpperCase(trim(word)))

\* the feedback[i] = null placeholder of line 413
NullCell == [char |-> "", status |-> "null", position |-> 0]

FeedbackCell(char, status, position) ==
    [char |-> char, status |-> status, position |-> position]

\* a first pass that marks the correct cells and forgets line 411
MarkCorrect_NotConsumed(guessChars, answerChars) ==
    [feedback |-> [k \in 1..Len(guessChars) |->
                     IF guessChars[k] = CharAt(answerChars, k - 1)
                     THEN FeedbackCell(guessChars[k], "correct", k - 1)
                     ELSE NullCell],
     answerUsed |-> [j \in 1..Len(answerChars) |-> FALSE]]

\* lines 401-415: the first pass; answerChars[i] past the end is undefined
MarkCorrect(guessChars, answerChars) ==
    [feedback |-> [k \in 1..Len(guessChars) |->
                     IF guessChars[k] = CharAt(answerChars, k - 1)
                     THEN FeedbackCell(guessChars[k], "correct", k - 1)
                     ELSE NullCell],
     answerUsed |-> [j \in 1..Len(answerChars) |->
                       j <= Len(guessChars) /\ guessChars[j] = answerChars[j]]]

\* lines 427-428: the first j (counted from 1 here) with !answerUsed[j] and
\* answerChars[j] === char, 0 when the loop ends without one
FirstUnused(answerChars, answerUsed, char) ==
    LET J == { j \in 1..Len(answerChars) : ~answerUsed[j] /\ answerChars[j] = char }
    IN IF J = {} THEN 0 ELSE CHOOSE j \in J : \A x \in J : j <= x

\* a second pass that forgets line 434
Consume_Forgotten(answerUsed, j) == answerUsed

\* line 434: answerUsed[j] = true
Consume(answerUsed, j) == [answerUsed EXCEPT ![j] = TRUE]

RECURSIVE SecondPass(_, _, _, _, _)
\* lines 418-447: the second pass, from position i (counted from 0) on
SecondPass(guessChars, answerChars, feedback, answerUsed, p) ==
    IF p >= Len(guessChars) THEN feedback
    ELSE IF feedback[p + 1] # NullCell
    THEN SecondPass(guessChars, answerChars, feedback, answerUsed, p + 1)
    ELSE LET char == guessChars[p + 1]
             j == FirstUnused(answerChars, answerUsed, char)
         IN IF j # 0
            THEN SecondPass(guessChars, answerChars,
                            [feedback EXCEPT ![p + 1] =
                                FeedbackCell(char, "wrong-position", p)],
                            Consume(answerUsed, j), p + 1)
            ELSE SecondPass(guessChars, answerChars,
                            [feedback EXCEPT ![p + 1] =
                                FeedbackCell(char, "incorrect", p)],
                            answerUsed, p + 1)

\* lines 392-450; no statement of checkAnswer throws on strings
checkAnswer(g, a) ==
    LET guessChars == normalize(g)
        answerChars == normalize(a)
        first == MarkCorrect(guessChars, answerChars)
    IN [called |-> TRUE, threw |-> FALSE,
        cells |-> SecondPass(guessChars, answerChars, first.feedback,
                             first.answerUsed, 0)]

NotChecked == [called |-> FALSE, threw |-> FALSE, cells |-> <<>>]

FeedbackIdle ==
    /\ guess = <<>>
    /\ answer = <<>>
    /\ fbResult = NotChecked

----------------------------------------------------------------------------
(* GameStateManager: the state of one game                                  *)
(* A puzzle is [puzzleId, language, grid, riddles], a riddle is             *)
(* [id, position, answer].  A JavaScript Set is the sequence of its members *)
(* in insertion order; a field that is undefined until it is assigned       *)
(* (finalScore, completionTime) is the empty sequence, then <<value>>.      *)
(* startTime is read only through the seconds elapsed since it, which the   *)
(* model takes as an input of the operation that reads the clock.           *)

NoPuzzle == [puzzleId |-> "none", language |-> "", grid |-> <<>>, riddles |-> <<>>]

\* line 24: hintsRemaining: 2
InitialHints == 2

\* lines 17-31, with createEmptyGrid (lines 37-39)
initializeState ==
    [revealedWords |-> <<>>,
     attempts |-> 0,
     playerGrid |-> EmptyGrid,
     hintsRevealed |-> <<>>,
     hintsRemaining |-> InitialHints,
     currentRiddle |-> 0,
     gameStatus |-> "playing",
     score |-> 0,
     hasSeenWelcome |-> FALSE,
     finalScore |-> <<>>,
     completionTime |-> <<>>]

\* no item under the key
NoItem == [present |-> FALSE, value |-> [puzzleId |-> "none"]]

\* lines 398-412: the object that saveState stringifies (finalScore and
\* completionTime are not among its fields)
stateToSave(pz, st) ==
    [puzzleId |-> pz.puzzleId,
     revealedWords |-> st.revealedWords,
     attempts |-> st.attempts,
     playerGrid |-> st.playerGrid,
     hintsRevealed |-> st.hintsRevealed,
     hintsRemaining |-> st.hintsRemaining,
     currentRiddle |-> st.currentRiddle,
     gameStatus |-> st.gameStatus,
     score |-> st.score,
     hasSeenWelcome |-> st.hasSeenWelcome]

\* lines 396-416: localStorage.setItem(key, JSON.stringify(stateToSave))
saveState(pz, st) == [present |-> TRUE, value |-> stateToSave(pz, st)]

\* what a call returned: the riddle of useRandomHint (isNull for null), the
\* result object of validateFullGrid
NullRiddle == [isNull |-> TRUE, id |-> 0, position |-> 0, answer |-> <<>>]
ReturnedRiddle(r) ==
    [isNull |-> FALSE, id |-> r.id, position |-> r.position, answer |-> r.answer]
NoResult == [correct |-> FALSE, feedback |-> <<>>, attempts |-> 0, gameOver |-> FALSE]

Called(op, arg, riddle, result) ==
    [op |-> op, arg |-> arg, riddle |-> riddle, result |-> result]

GameIdle ==
    /\ puzzle = NoPuzzle
    /\ state = initializeState
    /\ localStorage = NoItem
    /\ lastCall = Called("none", <<>>, NullRiddle, NoResult)

\* RTLSupport.normalizeText(text, language): the Hebrew word-final letter
\* forms fold to their standard forms
normalizeText(text, language) ==
    IF language # "he" THEN text
    ELSE CASE text = "kaf-final" -> "kaf"
           [] text = "mem-final" -> "mem"
           [] text = "nun-final" -> "nun"
           [] text = "pe-final" -> "pe"
           [] text = "tsadi-final" -> "tsadi"
           [] OTHER -> text

\* RTLSupport.normalizeText(letter.toUpperCase(), this.puzzle.language)
Letter(pz, letter) == normalizeText(UpperCaseOf(letter), pz.language)

\* lines 488-493: the solution's row and column through the cell
rowLetters(pz, row) == { Letter(pz, Cell(pz.grid, row, c)) : c \in 0..GridSize - 1 }
colLetters(pz, col) == { Letter(pz, Cell(pz.grid, r, col)) : r \in 0..GridSize - 1 }

\* a lookup that forgets the column of line 495
LetterStatus_RowOnly(playerLetter, correctLetter, inRow, inCol) ==
    IF playerLetter = correctLetter THEN "correct"
    ELSE IF playerLetter \in inRow THEN "wrong-position"
    ELSE "incorrect"

\* lines 480-498
LetterStatus(playerLetter, correctLetter, inRow, inCol) ==
    IF playerLetter = correctLetter THEN "correct"
    ELSE IF playerLetter \in inRow \/ playerLetter \in inCol THEN "wrong-position"
    ELSE "incorrect"

\* lines 471-507: the feedback object of one cell
CellFeedback(pz, st, row, col) ==
    LET playerLetter == Letter(pz, Cell(st.playerGrid, row, col))
        correctLetter == Letter(pz, Cell(pz.grid, row, col))
        status == LetterStatus(playerLetter, correctLetter,
                               rowLetters(pz, row), colLetters(pz, col))
    IN [row |-> row, col |-> col, correct |-> status = "correct", status |-> status,
        playerLetter |-> playerLetter, correctLetter |-> correctLetter]

\* lines 468-509: the cells are pushed row by row
GridFeedback(pz, st) ==
    [n \in 1..GridSize * GridSize |->
        CellFeedback(pz, st, (n - 1) \div GridSize, (n - 1) % GridSize)]

\* the allCorrect flag after the loops
allCorrect(pz, st) ==
    \A row, col \in 0..GridSize - 1 :
        Letter(pz, Cell(st.playerGrid, row, col)) = Letter(pz, Cell(pz.grid, row, col))

RECURSIVE AddAll(_, _)
\* revealedWords.add(x) for each x of xs, in order
AddAll(set, xs) ==
    IF xs = <<>> THEN set
    ELSE AddAll(IF Has(set, Head(xs)) THEN set ELSE Append(set, Head(xs)), Tail(xs))

\* lines 353-368, elapsedSeconds being what the clock gives
calculateFinalScore(st, elapsedSeconds) ==
    LET timeBonus == IF elapsedSeconds >= 200 THEN 0 ELSE 200 - elapsedSeconds
        perfect == IF st.attempts = 1 THEN 500 ELSE 0
        total == st.score + timeBonus + perfect
    IN [st EXCEPT !.score = total,
                  !.finalScore = <<total>>,
                  !.completionTime = <<elapsedSeconds>>]

\* a completion that sets the status and forgets to reveal the words
CompleteGame_StatusOnly(st, elapsedSeconds) ==
    calculateFinalScore([st EXCEPT !.gameStatus = "completed"], elapsedSeconds)

\* lines 514-521
CompleteGame(st, elapsedSeconds) ==
    calculateFinalScore(
        [st EXCEPT !.revealedWords = AddAll(st.revealedWords, <<0, 1, 2, 3>>),
                   !.gameStatus = "completed"],
        elapsedSeconds)

\* lines 460-529: the state it leaves and the object it returns
validateFullGrid(pz, st, elapsedSeconds) ==
    LET counted == [st EXCEPT !.attempts = st.attempts + 1]
    IN [state |-> IF allCorrect(pz, st) THEN CompleteGame(counted, elapsedSeconds)
                  ELSE counted,
        result |-> [correct |-> allCorrect(pz, st),
                    feedback |-> GridFeedback(pz, st),
                    attempts |-> counted.attempts,
                    gameOver |-> allCorrect(pz, st)]]

\* lines 59-63
updateCell(st, row, col, letter) ==
    IF row < GridSize /\ col < GridSize
    THEN [st EXCEPT !.playerGrid[row + 1][col + 1] = UpperCaseOf(letter)]
    ELSE st

\* lines 535-539
getAvailableHints(pz, st) ==
    SelectSeq(pz.riddles, LAMBDA r : ~(\E k \in 1..Len(st.hintsRevealed) :
                                          st.hintsRevealed[k] = r.id))

\* a hint that is given without being counted (line 561 forgotten)
useRandomHint_NotCounted(pz, st, randomIndex) ==
    IF st.hintsRemaining <= 0 THEN [state |-> st, riddle |-> NullRiddle]
    ELSE IF Len(getAvailableHints(pz, st)) = 0 THEN [state |-> st, riddle |-> NullRiddle]
    ELSE LET riddle == getAvailableHints(pz, st)[randomIndex + 1]
         IN [state |-> [st EXCEPT !.hintsRevealed = Append(st.hintsRevealed, riddle.id)],
             riddle |-> ReturnedRiddle(riddle)]

\* lines 545-564; randomIndex is Math.floor(Math.random() * available.length)
useRandomHint(pz, st, randomIndex) ==
    IF st.hintsRemaining <= 0 THEN [state |-> st, riddle |-> NullRiddle]
    ELSE IF Len(getAvailableHints(pz, st)) = 0 THEN [state |-> st, riddle |-> NullRiddle]
    ELSE LET riddle == getAvailableHints(pz, st)[randomIndex + 1]
         IN [state |-> [st EXCEPT !.hintsRevealed = Append(st.hintsRevealed, riddle.id),
                                  !.hintsRemaining = st.hintsRemaining - 1],
             riddle |-> ReturnedRiddle(riddle)]

\* a reveal that pushes without the includes test of line 327
revealHint_AlwaysPush(st, riddleId) ==
    [st EXCEPT !.hintsRevealed = Append(st.hintsRevealed, riddleId)]

\* lines 327-329
revealHint(st, riddleId) ==
    IF \E k \in 1..Len(st.hintsRevealed) : st.hintsRevealed[k] = riddleId
    THEN st
    ELSE [st EXCEPT !.hintsRevealed = Append(st.hintsRevealed, riddleId)]

\* the value of field name of the parsed object, or orElse when the saved
\* object has no such field (the field reads undefined)
Field(saved, name, orElse) == IF name \in DOMAIN saved THEN saved[name] ELSE orElse

\* a restore written before hintsRemaining existed: line 441 is missing
loadState_HintsRemainingForgotten(pz, st, item) ==
    IF ~item.present THEN [returned |-> FALSE, state |-> st]
    ELSE IF item.value.puzzleId # pz.puzzleId THEN [returned |-> FALSE, state |-> st]
    ELSE LET saved == item.value
         IN [returned |-> TRUE,
             state |-> [st EXCEPT
                !.revealedWords = AddAll(<<>>, Field(saved, "revealedWords", <<>>)),
                !.attempts = Field(saved, "attempts", 0),
                !.playerGrid = Field(saved, "playerGrid", EmptyGrid),
                !.hintsRevealed = Field(saved, "hintsRevealed", <<>>),
                !.currentRiddle = Field(saved, "currentRiddle", 0),
                !.gameStatus = Field(saved, "gameStatus", UNDEF),
                !.score = Field(saved, "score", UNDEF),
                !.hasSeenWelcome = Field(saved, "hasSeenWelcome", FALSE)]]

\* lines 423-454: loadState(key) on a manager of puzzle pz in state st, item
\* being what localStorage holds under the key; JSON.parse gives back the
\* object that saveState stringified (numbers, strings, booleans and arrays
\* of them), new Set(array) keeps the first of equal members, and
\* x || default is x for every x but 0, false, '' and undefined
loadState(pz, st, item) ==
    IF ~item.present THEN [returned |-> FALSE, state |-> st]
    ELSE IF item.value.puzzleId # pz.puzzleId THEN [returned |-> FALSE, state |-> st]
    ELSE LET saved == item.value
         IN [returned |-> TRUE,
             state |-> [st EXCEPT
                !.revealedWords = AddAll(<<>>, Field(saved, "revealedWords", <<>>)),
                !.attempts = Field(saved, "attempts", 0),
                !.playerGrid = Field(saved, "playerGrid", EmptyGrid),
                !.hintsRevealed = Field(saved, "hintsRevealed", <<>>),
                !.hintsRemaining = Field(saved, "hintsRemaining", 2),
                !.currentRiddle = Field(saved, "currentRiddle", 0),
                !.gameStatus = Field(saved, "gameStatus", UNDEF),
                !.score = Field(saved, "score", UNDEF),
                !.hasSeenWelcome = Field(saved, "hasSeenWelcome", FALSE)]]

\* lines 267-280: the feedback object of position pos (from 0) of the padded
\* guess; answerChars[pos] is undefined past the end of the answer
LetterFeedback(guessChars, answerChars, pos) ==
    LET guessChar == guessChars[pos + 1]
    IN IF guessChar = "" THEN [char |-> "", status |-> "empty"]
       ELSE IF guessChar = CharAt(answerChars, pos)
       THEN [char |-> guessChar, status |-> "correct"]
       ELSE IF \E k \in 1..Len(answerChars) : answerChars[k] = guessChar
       THEN [char |-> guessChar, status |-> "wrong-position"]
       ELSE [char |-> guessChar, status |-> "incorrect"]

\* lines 258-283: the guess is padded with '' to 4 characters and its
\* first 4 characters are marked
generateFeedback(guessWord, answerWord) ==
    LET guessChars == [k \in 1..(IF Len(guessWord) < GridSize THEN GridSize ELSE Len(guessWord)) |->
                          IF k <= Len(guessWord) THEN guessWord[k] ELSE ""]
    IN [k \in 1..GridSize |-> LetterFeedback(guessChars, answerWord, k - 1)]

\* line 179: this.puzzle.riddles.find(r => r.id === riddleId)
FoundRiddles(pz, riddleId) == SelectSeq(pz.riddles, LAMBDA r : r.id = riddleId)

\* lines 209-212 and 226-229: the completion check after revealWord
CheckComplete(st, elapsedSeconds) ==
    IF Len(st.revealedWords) = GridSize
    THEN calculateFinalScore([st EXCEPT !.gameStatus = "completed"], elapsedSeconds)
    ELSE st

\* line 222: previousAttempts >= 3
AutoReveals(previousAttempts) == previousAttempts >= 3

\* a completion check that runs before the word is revealed
Revealed_CheckedFirst(st, position, elapsedSeconds) ==
    LET checked == CheckComplete(st, elapsedSeconds)
    IN [checked EXCEPT !.revealedWords = AddAll(checked.revealedWords, <<position>>)]

\* lines 199 and 208-212, lines 224 and 227-230: revealWord(position), then
\* the completion check
Revealed(st, position, elapsedSeconds) ==
    CheckComplete([st EXCEPT !.revealedWords = AddAll(st.revealedWords, <<position>>)],
                  elapsedSeconds)

\* lines 178-250 for a riddle that was found: the state it leaves and the
\* object it returns
submitFound(st, riddle, answerGiven, elapsedSeconds) ==
    LET normalizedAnswer == trim(toUpperCase(answerGiven))
        correctAnswer == toUpperCase(riddle.answer)
        previousAttempts == st.attempts
        counted == [st EXCEPT !.attempts = st.attempts + 1]
        correct == normalizedAnswer = correctAnswer
        attemptBonus == (IF previousAttempts >= 4 THEN 0 ELSE 4 - previousAttempts) * 10
        scored == Revealed([counted EXCEPT !.score = counted.score + 100 + attemptBonus],
                           riddle.position, elapsedSeconds)
        auto == Revealed(counted, riddle.position, elapsedSeconds)
        feedback == generateFeedback(normalizedAnswer, correctAnswer)
    IN IF correct
       THEN [threw |-> FALSE, state |-> scored,
             result |-> [correct |-> TRUE, feedback |-> feedback, revealed |-> TRUE,
                         gameOver |-> scored.gameStatus = "completed",
                         attempts |-> scored.attempts]]
       ELSE IF AutoReveals(previousAttempts)
       THEN [threw |-> FALSE, state |-> auto,
             result |-> [correct |-> FALSE, feedback |-> feedback, revealed |-> TRUE,
                         autoRevealed |-> TRUE, correctAnswer |-> correctAnswer,
                         gameOver |-> auto.gameStatus = "completed",
                         attempts |-> auto.attempts]]
       ELSE [threw |-> FALSE, state |-> counted,
             result |-> [correct |-> FALSE, feedback |-> feedback, revealed |-> FALSE,
                         gameOver |-> FALSE, attempts |-> counted.attempts,
                         attemptsRemaining |->
                             IF counted.attempts >= 3 THEN 0 ELSE 3 - counted.attempts]]

\* lines 178-250: submitAnswer(riddleId, answer); an id of no riddle throws
\* before anything is written
submitAnswer(pz, st, riddleId, answerGiven, elapsedSeconds) ==
    IF FoundRiddles(pz, riddleId) = <<>>
    THEN [threw |-> TRUE, state |-> st, result |-> NoResult]
    ELSE submitFound(st, FoundRiddles(pz, riddleId)[1], answerGiven, elapsedSeconds)

----------------------------------------------------------------------------
(* MagicSquareFinder.findMagicSquares(words, maxResults), step by step *)

NotCalled == [threw |-> FALSE, valid |-> FALSE, errors |-> <<>>]

ValidatorIdle ==
    /\ callKind = "none"
    /\ callGrid = <<>>
    /\ callSet = <<>>
    /\ callSquare = [kind |-> "null"]
    /\ callResult = NotCalled
    /\ callChar = ""
    /\ callWords = <<>>

BuildIdle ==
    /\ callFirst = <<>>
    /\ callBuilt = Null
    /\ callGated = {}

\* how a promise stands: pending, or settled with the value or the error of
\* the call of fn of the given number (0: with undefined)
Pending == [kind |-> "pending", call |-> 0, what |-> ""]
Settled(kind, call, what) == [kind |-> kind, call |-> call, what |-> what]

RetryIdle ==
    /\ retryPc = "idle"
    /\ retryI = 0
    /\ maxRetries = 0
    /\ baseDelay = 0
    /\ fnPending = 0
    /\ fnCalls = <<>>
    /\ delays = <<>>
    /\ retryResult = Pending

\* the second manager has not been constructed
PersistIdle == fresh = [called |-> FALSE, returned |-> FALSE, state |-> initializeState]

\* part_011 line 634: the renderer starts on the first cell; no check has failed
UiIdle ==
    /\ selectedCell = [row |-> 0, col |-> 0]
    /\ clearTimers = <<>>

OtherIdle ==
    /\ BuildIdle
    /\ RetryIdle
    /\ PersistIdle
    /\ UiIdle

Init ==
    /\ pc = "idle"
    /\ words = <<>>
    /\ maxResults = 0
    /\ wordSet = <<>>
    /\ shuffledWords = <<>>
    /\ si = 0
    /\ i = 0
    /\ results = <<>>
    /\ vk = 0
    /\ vres = NotCalled
    /\ ValidatorIdle
    /\ FeedbackIdle
    /\ GameIdle
    /\ OtherIdle

\* lines 13-20: the call, up to the copy that shuffleArray makes
Start ==
    /\ pc = "idle"
    /\ \E ws \in WordLists, m \in 0..MaxM :
         /\ words' = ws
         /\ maxResults' = m
         /\ wordSet' = SetOf(ws)
         /\ shuffledWords' = ws
         /\ si' = IF Len(ws) = 0 THEN 0 ELSE Len(ws) - 1
    /\ pc' = "shuffle"
    /\ UNCHANGED <<i, results, vk, vres, validatorVars, clientVars, otherVars>>

\* [a[x], a[y]] = [a[y], a[x]], x and y counted from 0
Swap(a, x, y) == [a EXCEPT ![x + 1] = a[y + 1], ![y + 1] = a[x + 1]]

\* lines 46-49: one round of Fisher-Yates; Math.random picks any j in 0..i
ShuffleStep ==
    /\ pc = "shuffle"
    /\ si > 0
    /\ \E j \in 0..si : shuffledWords' = Swap(shuffledWords, si, j)
    /\ si' = si - 1
    /\ UNCHANGED <<pc, words, maxResults, wordSet, i, results, vk, vres, validatorVars, clientVars, otherVars>>

\* line 50 and line 23's initialisation
ShuffleReturn ==
    /\ pc = "shuffle"
    /\ si = 0
    /\ pc' = "loop"
    /\ i' = 0
    /\ UNCHANGED <<words, maxResults, wordSet, shuffledWords, si, results, vk, vres,
                   validatorVars, clientVars, otherVars>>

\* a loop that tests results.length <= maxResults
LoopCondition_OffByOne == i < Len(shuffledWords) /\ Len(results) <= maxResults

\* line 23: i < shuffledWords.length && results.length < maxResults
LoopCondition == i < Len(shuffledWords) /\ Len(results) < maxResults

\* Line 27's call, this.buildMagicSquare(word1, wordSet), tabulated over the
\* calls a search can make: buildMagicSquare reads nothing but its arguments
\* and wordSet is never written after line 15, so the table holds exactly
\* what the call returns and each entry is computed once.
BuildCalls == UNION { { <<ws[k], SetOf(ws)>> : k \in 1..Len(ws) } : ws \in WordLists }
SquareBuilt == [call \in BuildCalls |-> buildMagicSquare(call[1], call[2])]

\* an iteration that forgets the i++ of line 23
TryWord_NoAdvance ==
    /\ pc = "loop"
    /\ LoopCondition
    /\ LET square == SquareBuilt[<<shuffledWords[i + 1], wordSet>>]
       IN results' = IF square # Null THEN Append(results, square) ELSE results
    /\ UNCHANGED <<pc, words, maxResults, wordSet, shuffledWords, si, i, vk, vres,
                   validatorVars, clientVars, otherVars>>

\* an iteration that searches a set built from the shuffled copy, as if line
\* 15 came after line 20 and read shuffledWords
TryWord_ShuffledSet ==
    /\ pc = "loop"
    /\ LoopCondition
    /\ LET square == SquareBuilt[<<shuffledWords[i + 1], SetOf(shuffledWords)>>]
       IN results' = IF square # Null THEN Append(results, square) ELSE results
    /\ i' = i + 1
    /\ UNCHANGED <<pc, words, maxResults, wordSet, shuffledWords, si, vk, vres,
                   validatorVars, clientVars, otherVars>>

\* lines 23-33: one iteration of the first-word loop
TryWord ==
    /\ pc = "loop"
    /\ LoopCondition
    /\ LET square == SquareBuilt[<<shuffledWords[i + 1], wordSet>>]
       IN results' = IF square # Null THEN Append(results, square) ELSE results
    /\ i' = i + 1
    /\ UNCHANGED <<pc, words, maxResults, wordSet, shuffledWords, si, vk, vres,
                   validatorVars, clientVars, otherVars>>

\* lines 35-36: the loop condition fails and the results are returned
Return ==
    /\ pc = "loop"
    /\ ~LoopCondition
    /\ pc' = "done"
    /\ UNCHANGED <<words, maxResults, wordSet, shuffledWords, si, i, results, vk, vres,
                   validatorVars, clientVars, otherVars>>

\* a caller passes one of the returned squares to validate, any number of times
ValidateReturned ==
    /\ pc \in {"done", "validated"}
    /\ \E k \in 1..Len(results) :
         /\ vk' = k
         /\ vres' = validate(AsObject(results[k]))
    /\ pc' = "validated"
    /\ UNCHANGED <<words, maxResults, wordSet, shuffledWords, si, i, results,
                   validatorVars, clientVars, otherVars>>

Next == Start \/ ShuffleStep \/ ShuffleReturn \/ TryWord \/ Return \/ ValidateReturned

Spec == Init /\ [][Next]_vars

\* lines 13-20 for a duplicate-free list of 4-letter words and a limit that
\* is at least the length of the list
StartUnlimited ==
    /\ pc = "idle"
    /\ \E ws \in DistinctLists(FourLetterWords, MaxWords) :
         \E m \in {Len(ws), Len(ws) + 1} :
            /\ words' = ws
            /\ maxResults' = m
            /\ wordSet' = SetOf(ws)
            /\ shuffledWords' = ws
            /\ si' = IF Len(ws) = 0 THEN 0 ELSE Len(ws) - 1
    /\ pc' = "shuffle"
    /\ UNCHANGED <<i, results, vk, vres, validatorVars, clientVars, otherVars>>

NextUnlimited == StartUnlimited \/ ShuffleStep \/ ShuffleReturn \/ TryWord \/ Return

SpecUnlimited == Init /\ [][NextUnlimited]_vars

\* The call is synchronous code on one thread: once started, each of its
\* steps is taken as soon as it can be.  Nothing obliges a caller to start a
\* search or to validate what it returned.
SpecLive ==
    /\ Init /\ [][Next]_vars
    /\ WF_vars(ShuffleStep) /\ WF_vars(ShuffleReturn)
    /\ WF_vars(TryWord) /\ WF_vars(Return)

----------------------------------------------------------------------------
(* The two validators called on their own, on supplied arguments.  Both   *)
(* are functions of their arguments alone, so a behaviour makes one call.  *)

MaxGridRows == 4

\* the word sets handed to the validators: every subset of the 4-letter words
SetInOrder(S) ==
    SelectSeq(<< <<"A","A","A","B">>, <<"A","A","B","A">>, <<"A","B","A","A">>,
                 <<"B","A","A","A">>, <<"A","A","A","A">> >>,
              LAMBDA w : w \in S)

SuppliedSets == { SetInOrder(S) : S \in SUBSET FourLetterWords }

\* the grids handed to isValidMagicSquare: 4 rows of 4 characters
SuppliedGrids == [1..GridSize -> FourLetterWords]

NullRow == [kind |-> "null", cells |-> <<>>]
ArrayRow(cells) == [kind |-> "array", cells |-> cells]

\* the rows of a supplied square: null, a row of 2 characters, rows of 4
SuppliedRows ==
    {NullRow} \cup { ArrayRow(w) : w \in FourLetterWords \cup { <<"A","B">> } }

MissingGrid == [kind |-> "missing", rows |-> <<>>]
StringGrid == [kind |-> "string", rows |-> <<>>]
ArrayGrid(rows) == [kind |-> "array", rows |-> rows]

SuppliedGridValues ==
    {MissingGrid, StringGrid}
        \cup { ArrayGrid(rows) : rows \in UNION { [1..n -> SuppliedRows] : n \in 0..MaxGridRows } }

MissingWords == [kind |-> "missing", items |-> <<>>]
ArrayWords(items) == [kind |-> "array", items |-> items]

\* the words arrays supplied with a grid: none, the grid's own rows, four
\* distinct words, two words, four words with a repeat
SuppliedWordsValues(grid) ==
    { MissingWords,
      ArrayWords([r \in 1..Len(grid.rows) |-> Join(grid.rows[r].cells)]),
      ArrayWords(SetInOrder(SquareWords)),
      ArrayWords(SubSeq(SetInOrder(SquareWords), 1, 2)),
      ArrayWords(<< <<"A","A","A","A">>, <<"A","A","A","B">>,
                    <<"A","A","A","B">>, <<"B","A","A","A">> >>) }

\* the word sets a caller of validate may hold
CallerSets == { SetInOrder(FourLetterWords), SetInOrder(SquareWords), <<>> }

NullSquare == [kind |-> "null"]
NumberSquare == [kind |-> "number"]
ObjectSquare(grid, ws) == [kind |-> "object", grid |-> grid, words |-> ws]

\* MagicSquareFinder.isValidMagicSquare(grid, wordSet) is called
CallIsValid ==
    /\ pc = "idle" /\ callKind = "none"
    /\ \E g \in SuppliedGrids, set \in SuppliedSets :
         /\ callGrid' = g
         /\ callSet' = set
         /\ callResult' = [threw |-> FALSE, valid |-> isValidMagicSquare(g, set),
                           errors |-> <<>>]
    /\ callKind' = "isValidMagicSquare"
    /\ callSquare' = NullSquare
    /\ UNCHANGED <<callChar, callWords, finderVars, clientVars, otherVars>>

\* MagicSquareFinder.validate(square) is called with an object; set is the
\* word set the caller holds (validate itself has no such parameter)
CallValidate ==
    /\ pc = "idle" /\ callKind = "none"
    /\ \E g \in SuppliedGridValues :
         \E ws \in SuppliedWordsValues(g), set \in CallerSets :
            /\ callSquare' = ObjectSquare(g, ws)
            /\ callSet' = set
            /\ callResult' = validate(ObjectSquare(g, ws))
    /\ callKind' = "validate"
    /\ callGrid' = <<>>
    /\ UNCHANGED <<callChar, callWords, finderVars, clientVars, otherVars>>

\* MagicSquareFinder.validate(square) is called with null or with a number
CallValidateNonObject ==
    /\ pc = "idle" /\ callKind = "none"
    /\ \E sq \in {NullSquare, NumberSquare} :
         /\ callSquare' = sq
         /\ callResult' = validate(sq)
    /\ callKind' = "validate"
    /\ callGrid' = <<>>
    /\ callSet' = <<>>
    /\ UNCHANGED <<callChar, callWords, finderVars, clientVars, otherVars>>

\* the first characters asked for: letters of the words, and one of none
SuppliedChars == {"A", "B", "C"}

\* MagicSquareFinder.findWordsStartingWith(char, wordSet) is called, on the
\* set of a word list
CallFindWords ==
    /\ pc = "idle" /\ callKind = "none"
    /\ \E ch \in SuppliedChars, ws \in WordLists :
         /\ callChar' = ch
         /\ callSet' = SetOf(ws)
         /\ callWords' = findWordsStartingWith(ch, SetOf(ws))
    /\ callKind' = "findWordsStartingWith"
    /\ UNCHANGED <<callGrid, callSquare, callResult, finderVars, clientVars, otherVars>>

\* MagicSquareFinder.buildMagicSquare(firstWord, wordSet) is called as
\* findMagicSquares calls it (lines 26-29): on a word of the list and the set
\* of the list
CallBuildMagicSquare ==
    /\ pc = "idle" /\ callKind = "none"
    /\ \E ws \in WordLists :
         \E k \in 1..Len(ws) :
            /\ callFirst' = ws[k]
            /\ callSet' = SetOf(ws)
            /\ callBuilt' = SearchUnder(ws[k], SetOf(ws)).square
            /\ callGated' = SearchUnder(ws[k], SetOf(ws)).gated
    /\ callKind' = "buildMagicSquare"
    /\ UNCHANGED <<callGrid, callSquare, callResult, callChar, callWords,
                   finderVars, clientVars, retryVars, persistVars, uiVars>>

NextValidator ==
    \/ CallIsValid
    \/ CallValidate
    \/ CallValidateNonObject
    \/ CallFindWords
    \/ CallBuildMagicSquare

SpecValidator == Init /\ [][NextValidator]_vars

----------------------------------------------------------------------------
(* AnswerChecker.checkAnswer called on its own: a function of its two      *)
(* arguments, so a behaviour makes one call.                                *)

MaxLen == 4

\* strings of at most n letters, already upper case
PlainStrings(n) == UNION { [1..k -> {"A", "B"}] : k \in 0..n }

LowerCaseOf(c) == CASE c = "A" -> "a" [] c = "B" -> "b" [] OTHER -> c

\* w typed in lower case
LowerCased(w) == [k \in 1..Len(w) |-> LowerCaseOf(w[k])]

\* w with white space around it
Padded(w) == <<" ">> \o w \o <<" ">>

\* w with a combining ring after its first letter
Ringed(w) == IF w = <<>> THEN w ELSE <<w[1], "ring">> \o Tail(w)

\* the answers of a puzzle file: upper or lower case
Answers == UNION { {w, LowerCased(w)} : w \in PlainStrings(MaxLen) }

\* what a player may submit
Guesses ==
    UNION { {w, LowerCased(w), Padded(w), Ringed(w)} : w \in PlainStrings(MaxLen) }

\* AnswerChecker.checkAnswer(guess, answer) is called
CallCheckAnswer ==
    /\ pc = "idle" /\ callKind = "none" /\ ~fbResult.called
    /\ \E g \in Guesses, a \in Answers :
         /\ guess' = g
         /\ answer' = a
         /\ fbResult' = checkAnswer(g, a)
    /\ UNCHANGED <<finderVars, validatorVars, gameVars, otherVars>>

NextFeedback == CallCheckAnswer

SpecFeedback == Init /\ [][NextFeedback]_vars

----------------------------------------------------------------------------
(* GameStateManager, one call at a time *)

MaxAttempts == 2
MaxWrong == 1

\* the riddles of a grid: riddle k is the word of row k - 1
RiddlesOf(grid, firstId) ==
    [k \in 1..GridSize |->
        [id |-> firstId + k - 1, position |-> k - 1, answer |-> Join(grid[k])]]

\* the puzzle of the unit tests
TestPuzzle ==
    LET grid == << <<"T","E","S","T">>, <<"E","A","C","H">>,
                   <<"S","C","A","N">>, <<"T","H","N","E">> >>
    IN [puzzleId |-> "test-puzzle-123", language |-> "en", grid |-> grid,
        riddles |-> RiddlesOf(grid, 1)]

\* a word square of English words
CardPuzzle ==
    LET grid == << <<"C","A","R","D">>, <<"A","R","E","A">>,
                   <<"R","E","A","R">>, <<"D","A","R","T">> >>
    IN [puzzleId |-> "card", language |-> "en", grid |-> grid,
        riddles |-> RiddlesOf(grid, 1)]

\* the same square in a puzzle file written in lower case, with riddle ids
\* that do not start at 1
LowerCasePuzzle ==
    LET grid == << <<"c","a","r","d">>, <<"a","r","e","a">>,
                   <<"r","e","a","r">>, <<"d","a","r","t">> >>
    IN [puzzleId |-> "card-lower", language |-> "en", grid |-> grid,
        riddles |-> RiddlesOf(grid, 11)]

\* a Hebrew puzzle whose grid holds word-final forms
HebrewPuzzle ==
    LET grid == << <<"alef","bet","kaf","kaf-final">>, <<"bet","alef","kaf-final","kaf">>,
                   <<"kaf","kaf-final","alef","bet">>, <<"kaf-final","kaf","bet","alef">> >>
    IN [puzzleId |-> "he-1", language |-> "he", grid |-> grid,
        riddles |-> RiddlesOf(grid, 1)]

Puzzles == {TestPuzzle, CardPuzzle, LowerCasePuzzle, HebrewPuzzle}

\* what a player types into cell (row, col): the solution's letter, one
\* other letter (a word-final form, a lower-case letter), or nothing
TypedLetters(pz, row, col) ==
    {Cell(pz.grid, row, col), "", IF pz.language = "he" THEN "kaf-final" ELSE "e"}

\* the cells in reading order, counted from 0
CellRow(n) == n \div GridSize
CellCol(n) == n % GridSize

\* how far the player has typed: the cells up to the last one that is not empty
Extent(grid) ==
    LET Filled == { n \in 1..GridSize * GridSize :
                      Cell(grid, CellRow(n - 1), CellCol(n - 1)) # "" }
    IN IF Filled = {} THEN 0 ELSE CHOOSE n \in Filled : \A x \in Filled : x <= n

\* how many of the cells typed so far do not hold the solution's letter
OffSolution(pz, grid) ==
    Cardinality({ n \in 1..Extent(grid) :
                    Cell(grid, CellRow(n - 1), CellCol(n - 1))
                      # UpperCaseOf(Cell(pz.grid, CellRow(n - 1), CellCol(n - 1))) })

\* new GameStateManager(puzzle), lines 8-11
Construct ==
    /\ puzzle = NoPuzzle
    /\ \E pz \in Puzzles : puzzle' = pz
    /\ state' = initializeState
    /\ lastCall' = Called("constructor", <<>>, NullRiddle, NoResult)
    /\ UNCHANGED <<localStorage, finderVars, validatorVars, feedbackVars, otherVars>>

\* updateCell(row, col, letter): the player types the grid in reading order
\* (the renderer moves to the next cell after each key), or retypes the
\* cell typed last, and has at most MaxWrong cells off the solution at a
\* time
UpdateCell ==
    /\ puzzle # NoPuzzle
    /\ \E n \in 0..GridSize * GridSize - 1 :
         /\ n <= Extent(state.playerGrid)
         /\ n + 1 >= Extent(state.playerGrid)
         /\ \E letter \in TypedLetters(puzzle, CellRow(n), CellCol(n)) :
              /\ state' = updateCell(state, CellRow(n), CellCol(n), letter)
              /\ OffSolution(puzzle, state'.playerGrid) <= MaxWrong
    /\ lastCall' = Called("updateCell", <<>>, NullRiddle, NoResult)
    /\ UNCHANGED <<puzzle, localStorage, finderVars, validatorVars, feedbackVars, otherVars>>

\* updateCell with a row outside the grid
UpdateCellOutside ==
    /\ puzzle # NoPuzzle
    /\ state' = updateCell(state, GridSize, 0, "A")
    /\ lastCall' = Called("updateCell", <<>>, NullRiddle, NoResult)
    /\ UNCHANGED <<puzzle, localStorage, finderVars, validatorVars, feedbackVars, otherVars>>

\* the seconds that Date.now() finds elapsed since startTime
ElapsedSeconds == {30, 200}

\* validateFullGrid(), lines 460-529
ValidateFullGrid ==
    /\ puzzle # NoPuzzle
    /\ state.attempts < MaxAttempts
    /\ \E elapsedSeconds \in ElapsedSeconds :
         LET call == validateFullGrid(puzzle, state, elapsedSeconds)
         IN /\ state' = call.state
            /\ lastCall' = Called("validateFullGrid", <<>>, NullRiddle, call.result)
    /\ UNCHANGED <<puzzle, localStorage, finderVars, validatorVars, feedbackVars, otherVars>>

\* reset(), lines 388-390
Reset ==
    /\ puzzle # NoPuzzle
    /\ state' = initializeState
    /\ lastCall' = Called("reset", <<>>, NullRiddle, NoResult)
    /\ UNCHANGED <<puzzle, localStorage, finderVars, validatorVars, feedbackVars, otherVars>>

\* useRandomHint(), lines 545-564; Math.random picks any available riddle
UseRandomHint ==
    /\ puzzle # NoPuzzle
    /\ \E randomIndex \in 0..Len(puzzle.riddles) - 1 :
         /\ randomIndex < Len(getAvailableHints(puzzle, state))
              \/ (randomIndex = 0 /\ Len(getAvailableHints(puzzle, state)) = 0)
         /\ LET call == useRandomHint(puzzle, state, randomIndex)
            IN /\ state' = call.state
               /\ lastCall' = Called("useRandomHint", <<>>, call.riddle, NoResult)
    /\ UNCHANGED <<puzzle, localStorage, finderVars, validatorVars, feedbackVars, otherVars>>

\* the ids that revealHint is called with: the riddles' and one of no riddle
RevealableIds(pz) == { pz.riddles[k].id : k \in 1..Len(pz.riddles) } \cup {99}

\* revealHint(riddleId), lines 326-331: the reveal, then saveState()
RevealHint ==
    /\ puzzle # NoPuzzle
    /\ \E riddleId \in RevealableIds(puzzle) :
         /\ state' = revealHint(state, riddleId)
         /\ localStorage' = saveState(puzzle, revealHint(state, riddleId))
         /\ lastCall' = Called("revealHint", <<riddleId>>, NullRiddle, NoResult)
    /\ UNCHANGED <<puzzle, finderVars, validatorVars, feedbackVars, otherVars>>

MaxSubmits == 4

\* what a player submits for a riddle whose answer is w: w itself or w's
\* second letter four times; and also w with white space around it or w's
\* first two letters
PlainAnswers(w) == {w, [k \in 1..GridSize |-> w[2]]}
SubmittedAnswers(w) == PlainAnswers(w) \cup {Padded(w), SubSeq(w, 1, 2)}

\* the answer that the player of riddle riddleId is after: the riddle's, or
\* the first riddle's for the id of no riddle
AnswerSought(pz, riddleId) ==
    IF FoundRiddles(pz, riddleId) = <<>> THEN pz.riddles[1].answer
    ELSE FoundRiddles(pz, riddleId)[1].answer

\* submitAnswer(riddleId, answer), lines 178-250, for one of the ids and
\* one of the forms of the answer sought
SubmitAnswerTo(ids, Forms(_)) ==
    /\ puzzle # NoPuzzle
    /\ state.attempts < MaxSubmits
    /\ \E riddleId \in ids :
         \E answerGiven \in Forms(AnswerSought(puzzle, riddleId)),
            elapsedSeconds \in ElapsedSeconds :
            LET call == submitAnswer(puzzle, state, riddleId, answerGiven, elapsedSeconds)
            IN /\ state' = call.state
               /\ lastCall' = Called(IF call.threw THEN "submitAnswer throws"
                                                  ELSE "submitAnswer",
                                     <<riddleId, answerGiven>>, NullRiddle, call.result)
    /\ UNCHANGED <<puzzle, localStorage, finderVars, validatorVars, feedbackVars, otherVars>>

\* submitAnswer for the id of any riddle, or of none
SubmitAnswer == SubmitAnswerTo(RevealableIds(puzzle), SubmittedAnswers)

NextSubmit == Construct \/ SubmitAnswer \/ Reset

SpecSubmit == Init /\ [][NextSubmit]_vars

(* A game in which every operation is called, in any order.  The inputs  *)
(* are those of a player who solves in order: the grid is typed cell by    *)
(* cell with the solution's letters, the riddles are answered first to     *)
(* last, and a game has one hint: the first riddle's on a new game, or a   *)
(* random one.                                                             *)

\* new GameStateManager(puzzle) for the puzzle of the unit tests
ConstructTest ==
    /\ puzzle = NoPuzzle
    /\ puzzle' = TestPuzzle
    /\ state' = initializeState
    /\ lastCall' = Called("constructor", <<>>, NullRiddle, NoResult)
    /\ UNCHANGED <<localStorage, finderVars, validatorVars, feedbackVars, otherVars>>

\* updateCell(row, col, letter): the player types the solution's letter into
\* the next cell in reading order, or empties the cell typed last
TypeNext ==
    /\ puzzle # NoPuzzle
    /\ \E n \in 0..GridSize * GridSize - 1 :
         \/ /\ n = Extent(state.playerGrid)
            /\ state' = updateCell(state, CellRow(n), CellCol(n),
                                   Cell(puzzle.grid, CellRow(n), CellCol(n)))
         \/ /\ n + 1 = Extent(state.playerGrid)
            /\ state' = updateCell(state, CellRow(n), CellCol(n), "")
    /\ lastCall' = Called("updateCell", <<>>, NullRiddle, NoResult)
    /\ UNCHANGED <<puzzle, localStorage, finderVars, validatorVars, feedbackVars, otherVars>>

\* the id of the first riddle whose word is not revealed yet, or of the
\* first riddle when every word is
NextRiddleIds(pz, st) ==
    { pz.riddles[IF Len(st.revealedWords) < Len(pz.riddles)
                 THEN Len(st.revealedWords) + 1 ELSE 1].id }

\* submitAnswer for the next riddle
SubmitNext == SubmitAnswerTo(NextRiddleIds(puzzle, state), PlainAnswers)

\* useRandomHint() in a game without a hint so far
FirstRandomHint == state.hintsRevealed = <<>> /\ UseRandomHint

\* revealHint(riddleId) for the first riddle, on a new game
RevealFirstHint ==
    /\ puzzle # NoPuzzle
    /\ state = initializeState
    /\ LET riddleId == puzzle.riddles[1].id
       IN /\ state' = revealHint(state, riddleId)
          /\ localStorage' = saveState(puzzle, revealHint(state, riddleId))
          /\ lastCall' = Called("revealHint", <<riddleId>>, NullRiddle, NoResult)
    /\ UNCHANGED <<puzzle, finderVars, validatorVars, feedbackVars, otherVars>>

NextGame ==
    \/ ConstructTest
    \/ TypeNext
    \/ SubmitNext
    \/ ValidateFullGrid
    \/ RevealFirstHint
    \/ FirstRandomHint
    \/ Reset

SpecGame == Init /\ [][NextGame]_vars

(* Saving and loading: a game is played, saved and left; a second manager *)
(* of the same puzzle then loads what localStorage holds.                 *)

\* the first manager is still played with
Played == lastCall.op \notin {"saveState", "setItem", "loadState"}

\* saveState(), lines 396-416
SaveState ==
    /\ puzzle # NoPuzzle
    /\ Played
    /\ localStorage' = saveState(puzzle, state)
    /\ lastCall' = Called("saveState", <<>>, NullRiddle, NoResult)
    /\ UNCHANGED <<puzzle, state, finderVars, validatorVars, feedbackVars, otherVars>>

\* the fields of a record saved before hints and the player grid existed
\* (the record of the unit test of lines 125-134)
OldFields == {"puzzleId", "revealedWords", "attempts", "currentRiddle", "gameStatus", "score"}

\* localStorage holds the record that an older version saved of this game
StoreOldRecord ==
    /\ puzzle # NoPuzzle
    /\ Played
    /\ localStorage' = [present |-> TRUE,
                        value |-> [name \in OldFields |-> stateToSave(puzzle, state)[name]]]
    /\ lastCall' = Called("setItem", <<>>, NullRiddle, NoResult)
    /\ UNCHANGED <<puzzle, state, finderVars, validatorVars, feedbackVars, otherVars>>

\* new GameStateManager(puzzle).loadState(), lines 423-454: a second manager
\* of the same puzzle loads; the call before it is kept as the argument
LoadState ==
    /\ puzzle # NoPuzzle
    /\ lastCall.op # "loadState"
    /\ LET call == loadState(puzzle, initializeState, localStorage)
       IN fresh' = [called |-> TRUE, returned |-> call.returned, state |-> call.state]
    /\ lastCall' = Called("loadState", <<lastCall.op>>, NullRiddle, NoResult)
    /\ UNCHANGED <<puzzle, state, localStorage, finderVars, validatorVars, feedbackVars,
                   buildVars, retryVars, uiVars>>

NextPersist ==
    \/ Played /\ ConstructTest
    \/ Played /\ TypeNext
    \/ Played /\ SubmitNext
    \/ Played /\ ValidateFullGrid
    \/ Played /\ FirstRandomHint
    \/ Played /\ Reset
    \/ SaveState
    \/ StoreOldRecord
    \/ LoadState

SpecPersist == Init /\ [][NextPersist]_vars

(* The grid on screen: the player selects cells, presses keys, clears the  *)
(* grid and checks it; a failed check starts the 2500 ms timer whose       *)
(* callback empties the cells its feedback did not mark correct. The       *)
(* player types the solution's letters in reading order, except in the    *)
(* last two cells of the last row (SlipCells), where a wrong letter or     *)
(* Backspace may come as well; those are the cells the player clicks on,   *)
(* besides the first cell when it is empty. The player clears the grid    *)
(* when it is full, until the first clear step has run and saved the game. *)

\* GameStateManager.js lines 298-300
isWordRevealed(st, position) == Has(st.revealedWords, position)

\* GameStateManager.js lines 82-91
isGridComplete(st) ==
    \A row, col \in 0..GridSize - 1 : Cell(st.playerGrid, row, col) # ""

\* an auto-fill that leaves the mirror cell alone
updateCellWithSymmetric_NoMirror(st, row, col, letter) ==
    updateCell(st, row, col, letter)

\* part_011 lines 889-917 (isUpdatingSymmetric is false at every call)
updateCellWithSymmetric(st, row, col, letter) ==
    IF row # col
    THEN updateCell(updateCell(st, row, col, letter), col, row, letter)
    ELSE updateCell(st, row, col, letter)

\* part_011 lines 946-960, with the guard of selectCell (lines 802-811)
moveToNextCell(st, cell) ==
    LET next == IF cell.col + 1 > GridSize - 1
                THEN [row |-> cell.row + 1, col |-> 0]
                ELSE [row |-> cell.row, col |-> cell.col + 1]
    IN IF next.row <= GridSize - 1 /\ ~isWordRevealed(st, next.row) THEN next ELSE cell

RECURSIVE EmptyEach(_, _)
\* updateCell(row, col, '') for each cell of the sequence, in order
EmptyEach(st, cells) ==
    IF cells = <<>> THEN st
    ELSE EmptyEach(updateCell(st, Head(cells).row, Head(cells).col, ""), Tail(cells))

\* InputArea.js lines 602-610: every cell, row by row
handleClear(st) ==
    EmptyEach(st, [n \in 1..GridSize * GridSize |->
                      [row |-> CellRow(n - 1), col |-> CellCol(n - 1)]])

\* InputArea.js lines 380-386: the callback of a failed check, holding the
\* feedback of that check
ClearCallback(st, feedback) ==
    EmptyEach(st, SelectSeq(feedback, LAMBDA f : f.status # "correct"))

\* part_011 lines 816-884: the grid and the selection that a key leaves
handleKeyPress(pz, st, cell, key) ==
    IF isWordRevealed(st, cell.row) THEN [state |-> st, selectedCell |-> cell]
    ELSE IF key = "Escape" THEN [state |-> handleClear(st), selectedCell |-> cell]
    ELSE IF key = "Backspace"
    THEN [state |-> updateCellWithSymmetric(st, cell.row, cell.col, ""),
          selectedCell |-> cell]
    ELSE LET normalizedKey == normalizeText(UpperCaseOf(key), pz.language)
             typed == updateCellWithSymmetric(st, cell.row, cell.col, normalizedKey)
         IN [state |-> typed, selectedCell |-> moveToNextCell(typed, cell)]

\* the cells where the player may type a wrong letter
SlipCells == {[row |-> GridSize - 1, col |-> GridSize - 2],
              [row |-> GridSize - 1, col |-> GridSize - 1]}

\* the cells the player clicks on
ClickCells(st) ==
    SlipCells \cup (IF Cell(st.playerGrid, 0, 0) = "" THEN {[row |-> 0, col |-> 0]} ELSE {})

\* a letter key of the puzzle's language that is neither solution letter
WrongKey(pz) == IF pz.language = "he" THEN "kaf-final" ELSE "x"

\* when the player clears the whole grid
ClearsAll(st) == isGridComplete(st) /\ localStorage = NoItem

\* the keys pressed on a cell
Keys(pz, st, cell) ==
    {Cell(pz.grid, cell.row, cell.col)}
        \cup (IF cell \in SlipCells THEN {WrongKey(pz), "Backspace"} ELSE {})
        \cup (IF ClearsAll(st) THEN {"Escape"} ELSE {})

\* selectCell(row, col), part_011 lines 802-811: a click on a cell
SelectCell ==
    /\ puzzle # NoPuzzle
    /\ \E cell \in ClickCells(state) :
         /\ cell # selectedCell
         /\ selectedCell' = IF isWordRevealed(state, cell.row) THEN selectedCell ELSE cell
    /\ lastCall' = Called("selectCell", <<>>, NullRiddle, NoResult)
    /\ UNCHANGED <<puzzle, state, localStorage, clearTimers, finderVars, validatorVars,
                   feedbackVars, buildVars, retryVars, persistVars>>

\* handleKeyPress(e), part_011 lines 816-884
KeyPress ==
    /\ puzzle # NoPuzzle
    /\ \E key \in Keys(puzzle, state, selectedCell) :
         LET call == handleKeyPress(puzzle, state, selectedCell, key)
         IN /\ state' = call.state
            /\ selectedCell' = call.selectedCell
            /\ lastCall' = Called("handleKeyPress", <<key>>, NullRiddle, NoResult)
    /\ UNCHANGED <<puzzle, localStorage, clearTimers, finderVars, validatorVars,
                   feedbackVars, buildVars, retryVars, persistVars>>

\* the Clear button: handleClear(), InputArea.js lines 602-610
ClearAll ==
    /\ puzzle # NoPuzzle
    /\ ClearsAll(state)
    /\ state' = handleClear(state)
    /\ lastCall' = Called("handleClear", <<>>, NullRiddle, NoResult)
    /\ UNCHANGED <<puzzle, localStorage, finderVars, validatorVars, feedbackVars, otherVars>>

\* the Check button (InputArea.js lines 309-314) and handleCheckGrid()
\* (lines 356-402): a failed check starts the timer of
\* showGridFeedbackWithClear (part_011 lines 1067-1077); the timers of a
\* successful check change the page only
CheckGrid ==
    /\ puzzle # NoPuzzle
    /\ isGridComplete(state)
    /\ state.attempts < MaxAttempts
    /\ \E elapsedSeconds \in ElapsedSeconds :
         LET call == validateFullGrid(puzzle, state, elapsedSeconds)
         IN /\ state' = call.state
            /\ clearTimers' = IF call.result.correct THEN clearTimers
                              ELSE Append(clearTimers, call.result.feedback)
            /\ lastCall' = Called("handleCheckGrid", <<>>, NullRiddle, call.result)
    /\ UNCHANGED <<puzzle, localStorage, selectedCell, finderVars, validatorVars,
                   feedbackVars, buildVars, retryVars, persistVars>>

\* the oldest 2500 ms timer fires: the callback of InputArea.js lines
\* 380-397 empties the cells and saves the state
AutoClear ==
    /\ clearTimers # <<>>
    /\ state' = ClearCallback(state, Head(clearTimers))
    /\ localStorage' = saveState(puzzle, ClearCallback(state, Head(clearTimers)))
    /\ clearTimers' = Tail(clearTimers)
    /\ lastCall' = Called("autoClear", <<>>, NullRiddle, NoResult)
    /\ UNCHANGED <<puzzle, selectedCell, finderVars, validatorVars, feedbackVars,
                   buildVars, retryVars, persistVars>>

NextScreen == ConstructTest \/ SelectCell \/ KeyPress \/ ClearAll \/ CheckGrid \/ AutoClear

SpecScreen == Init /\ [][NextScreen]_vars

NextGrid == Construct \/ UpdateCell \/ UpdateCellOutside \/ ValidateFullGrid \/ Reset

SpecGrid == Init /\ [][NextGrid]_vars

NextRandomHints == Construct \/ UseRandomHint \/ Reset

SpecRandomHints == Init /\ [][NextRandomHints]_vars

NextHints == Construct \/ UseRandomHint \/ RevealHint \/ Reset

SpecHints == Init /\ [][NextHints]_vars

----------------------------------------------------------------------------
(* RiddleGenerator.retryWithBackoff(fn, maxRetries, baseDelay)             *)
(*                                                                         *)
(* An async function: it runs up to its next await, and goes on when what  *)
(* it awaits settles: the promise of fn(), or the timer of setTimeout.     *)

MaxRetries == 3

\* the delays a caller may ask for, in milliseconds
BaseDelays == {0, 10, 1000}

\* what a resolved call of fn gives, and what a rejected one gives
FnValues == {"success", "other"}
FnErrors == {"fail", "timeout"}

RECURSIVE Pow2(_)
\* Math.pow(2, n)
Pow2(n) == IF n = 0 THEN 1 ELSE 2 * Pow2(n - 1)

\* a catch block that compares i with maxRetries
OnError_OffByOne(iLoop, retries, base) ==
    IF iLoop = retries
    THEN [throws |-> TRUE, delay |-> 0]
    ELSE [throws |-> FALSE, delay |-> base * Pow2(iLoop)]

\* lines 571-578: the catch block, for the loop index, maxRetries and
\* baseDelay: whether it throws the error, and the delay it waits otherwise
OnError(iLoop, retries, base) ==
    IF iLoop = retries - 1
    THEN [throws |-> TRUE, delay |-> 0]
    ELSE [throws |-> FALSE, delay |-> base * Pow2(iLoop)]

\* line 567: the call
CallRetry ==
    /\ pc = "idle" /\ callKind = "none" /\ retryPc = "idle"
    /\ \E r \in 0..MaxRetries, d \in BaseDelays :
         /\ maxRetries' = r
         /\ baseDelay' = d
    /\ retryI' = 0
    /\ retryPc' = "loop"
    /\ UNCHANGED <<fnPending, fnCalls, delays, retryResult,
                   finderVars, validatorVars, clientVars, buildVars, persistVars, uiVars>>

\* lines 568-570: the loop condition holds and fn is called; the function
\* awaits its promise
CallFn ==
    /\ retryPc = "loop"
    /\ retryI < maxRetries
    /\ fnPending' = fnPending + 1
    /\ retryPc' = "awaitFn"
    /\ UNCHANGED <<retryI, maxRetries, baseDelay, fnCalls, delays, retryResult,
                   finderVars, validatorVars, clientVars, buildVars, persistVars, uiVars>>

\* line 570: the promise of fn resolves, and its value is returned
FnResolves ==
    /\ retryPc = "awaitFn"
    /\ \E v \in FnValues :
         /\ fnCalls' = Append(fnCalls, [ok |-> TRUE, what |-> v])
         /\ retryResult' = Settled("resolved", Len(fnCalls) + 1, v)
    /\ fnPending' = fnPending - 1
    /\ retryPc' = "done"
    /\ UNCHANGED <<retryI, maxRetries, baseDelay, delays,
                   finderVars, validatorVars, clientVars, buildVars, persistVars, uiVars>>

\* lines 571-578: the promise of fn rejects; the catch block throws the
\* error or starts a timer and awaits it
FnRejects ==
    /\ retryPc = "awaitFn"
    /\ \E e \in FnErrors :
         /\ fnCalls' = Append(fnCalls, [ok |-> FALSE, what |-> e])
         /\ IF OnError(retryI, maxRetries, baseDelay).throws
            THEN /\ retryResult' = Settled("rejected", Len(fnCalls) + 1, e)
                 /\ retryPc' = "done"
                 /\ delays' = delays
            ELSE /\ delays' = Append(delays, OnError(retryI, maxRetries, baseDelay).delay)
                 /\ retryPc' = "awaitTimer"
                 /\ retryResult' = retryResult
    /\ fnPending' = fnPending - 1
    /\ UNCHANGED <<retryI, maxRetries, baseDelay,
                   finderVars, validatorVars, clientVars, buildVars, persistVars, uiVars>>

\* line 577 and the i++ of line 568: the timer fires and the loop goes on
TimerFires ==
    /\ retryPc = "awaitTimer"
    /\ retryI' = retryI + 1
    /\ retryPc' = "loop"
    /\ UNCHANGED <<maxRetries, baseDelay, fnPending, fnCalls, delays, retryResult,
                   finderVars, validatorVars, clientVars, buildVars, persistVars, uiVars>>

\* line 580: the loop condition fails and the function ends without a
\* return statement: its promise resolves with undefined
LoopEnds ==
    /\ retryPc = "loop"
    /\ retryI >= maxRetries
    /\ retryResult' = Settled("resolved", 0, UNDEF)
    /\ retryPc' = "done"
    /\ UNCHANGED <<retryI, maxRetries, baseDelay, fnPending, fnCalls, delays,
                   finderVars, validatorVars, clientVars, buildVars, persistVars, uiVars>>

NextRetry == CallRetry \/ CallFn \/ FnResolves \/ FnRejects \/ TimerFires \/ LoopEnds

SpecRetry == Init /\ [][NextRetry]_vars

----------------------------------------------------------------------------
(* What the claims speak of, stated without the search *)

Min(a, b) == IF a < b THEN a ELSE b

\* the grid whose rows are the four words of ws
GridOfWords(ws) == [r \in 1..GridSize |-> [c \in 1..GridSize |-> CharAt(ws[r], c - 1)]]

Symmetric(grid) ==
    \A r, c \in 0..GridSize - 1 : Cell(grid, r, c) = Cell(grid, c, r)

\* the four column words, as RowWords gives the four row words
ColWords(grid) == [c \in 1..GridSize |-> ColWord(grid, c - 1)]

\* every word of the sequence ws is one of the list
AllIn(ws, list) == \A r \in 1..Len(ws) : \E k \in 1..Len(list) : list[k] = ws[r]

PairwiseDistinct(ws) == \A r, q \in 1..Len(ws) : r < q => ws[r] # ws[q]

\* a valid square over the list: symmetric, every row in the list, rows
\* pairwise distinct
ValidSquare(grid, list) ==
    /\ Symmetric(grid)
    /\ PairwiseDistinct(RowWords(grid))
    /\ AllIn(RowWords(grid), list)

\* cell (r, c) of the grid whose rows are the words of ws, r and c from 0
WordCell(ws, r, c) == CharAt(ws[r + 1], c)

\* the indices of the words of the list that are row 0 of some valid square
\* over the list; the symmetry of the cells that the rows chosen so far fix
\* is stated as soon as they are chosen, and ValidSquare states all of it
\* again
FirstWordIndices(list) ==
    { a \in 1..Len(list) :
        \E b \in 1..Len(list) :
            /\ WordCell(<<list[a], list[b]>>, 1, 0) = WordCell(<<list[a], list[b]>>, 0, 1)
            /\ \E c \in 1..Len(list) :
                 /\ WordCell(<<list[a], list[b], list[c]>>, 2, 0)
                      = WordCell(<<list[a], list[b], list[c]>>, 0, 2)
                 /\ WordCell(<<list[a], list[b], list[c]>>, 2, 1)
                      = WordCell(<<list[a], list[b], list[c]>>, 1, 2)
                 /\ \E d \in 1..Len(list) :
                      /\ CharAt(list[d], 0) = CharAt(list[a], 3)
                      /\ ValidSquare(GridOfWords(<<list[a], list[b], list[c], list[d]>>),
                                     list) }

\* the words themselves
FirstWords(list) == { list[a] : a \in FirstWordIndices(list) }

IsFullGrid(grid) ==
    /\ Len(grid) = GridSize
    /\ \A r \in 1..GridSize : Len(grid[r]) = GridSize

DuplicateFree(ws) == \A x, y \in 1..Len(ws) : x # y => ws[x] # ws[y]
AllFourLetters(ws) == \A x \in 1..Len(ws) : Len(ws[x]) = GridSize

----------------------------------------------------------------------------
(* The claims about findMagicSquares *)

\* C1: every square in the results array has a full 4x4 grid with
\* grid[i][j] = grid[j][i] for all i, j, whatever the word list, the limit
\* and the shuffle were.
C1_ReturnedGridsSymmetric ==
    \A k \in 1..Len(results) :
        IsFullGrid(results[k].grid) /\ Symmetric(results[k].grid)

\* C1 witness: a search has returned a square, found for a first word that
\* the shuffle moved away from the front of the list.
C1_Witness ==
    /\ pc = "done"
    /\ Len(results) >= 1
    /\ shuffledWords # words
    /\ results[1].words[1] # words[1]

\* C2: in every returned square each row word and each column word is a
\* word of the input list and the four row words are pairwise distinct.
C2_ReturnedSquaresValid ==
    \A k \in 1..Len(results) :
        LET g == results[k].grid
        IN /\ IsFullGrid(g)
           /\ AllIn(RowWords(g), words)
           /\ AllIn(ColWords(g), words)
           /\ PairwiseDistinct(RowWords(g))

\* C2 witness: a search over a list that holds AAAA, whose grid of four
\* equal rows is symmetric and made of list words, has returned a square.
C2_Witness ==
    /\ pc = "done"
    /\ <<"A","A","A","A">> \in Range(words)
    /\ Len(results) >= 1

\* C3: for a duplicate-free list of 4-letter words the search returns
\* exactly min(M, F) squares, F being the number of words that are row 0 of
\* some valid square; so never more than M, and at least one when a valid
\* square exists and M >= 1.
C3_ReturnsMinOfLimitAndFirstWords ==
    (pc = "done" /\ DuplicateFree(words) /\ AllFourLetters(words)) =>
        LET F == Cardinality(FirstWords(words))
        IN /\ Len(results) = Min(maxResults, F)
           /\ Len(results) <= maxResults
           /\ (F >= 1 /\ maxResults >= 1) => Len(results) >= 1

\* C3 witness: the limit cut the search short: more first words than M.
C3_Witness ==
    /\ pc = "done"
    /\ DuplicateFree(words) /\ AllFourLetters(words)
    /\ maxResults >= 1
    /\ Cardinality(FirstWords(words)) > maxResults
    /\ Len(results) = maxResults

\* C4: when no valid square can be formed from the word list, the search
\* returns an empty array, for every M.
C4_NoSquareGivesEmptyResult ==
    (pc = "done" /\ FirstWords(words) = {}) => results = <<>>

\* C4 witness: three distinct words, a positive limit, no valid square, and
\* the search has tried every word and returned nothing.
C4_Witness ==
    /\ pc = "done"
    /\ Len(words) = GridSize - 1 /\ DuplicateFree(words)
    /\ maxResults >= 1
    /\ FirstWords(words) = {}
    /\ i = Len(words)
    /\ results = <<>>

\* C9: validate, given a square that findMagicSquares returned, returns
\* valid = true with no violations, and does not throw.
C9_ReturnedSquaresValidate ==
    vk # 0 => vres = [threw |-> FALSE, valid |-> TRUE, errors |-> <<>>]

\* C9 witness: the second square of a result has been validated.
C9_Witness ==
    /\ pc = "validated"
    /\ vk = 2
    /\ vres.valid

\* C10: building the word index fails whenever a word of the list does not
\* have exactly 4 characters: a list with such a word is never searched.
C10_MixedLengthNeverSearched ==
    pc \in {"loop", "done", "validated"} => AllFourLetters(words)

\* C16: findMagicSquares terminates on every word list and every M: every
\* iteration of the first-word loop moves on to the next word of the
\* shuffled list, so each first word is tried at most once, and every call
\* that started returns.
C16_SearchTerminates ==
    /\ [][(pc = "loop" /\ pc' = "loop") => (i' = i + 1 /\ i' <= Len(shuffledWords))]_vars
    /\ (pc = "shuffle") ~> (pc = "done")

\* C16 witness: a search has returned after trying every word of a full
\* list, with fewer squares found than the limit allowed.
C16_Witness ==
    /\ pc = "done"
    /\ Len(words) = MaxWords
    /\ i = Len(shuffledWords)
    /\ Len(results) >= 1
    /\ Len(results) < maxResults

----------------------------------------------------------------------------
(* The claims about the two validators *)

\* C5: isValidMagicSquare(grid, wordSet) returns true exactly when the grid
\* is symmetric, every row word is in wordSet, the four row words are
\* pairwise distinct and every column word is in wordSet.
C5_BooleanValidatorIsTheFourChecks ==
    callKind = "isValidMagicSquare" =>
        callResult.valid =
            ( /\ Symmetric(callGrid)
              /\ AllIn(RowWords(callGrid), callSet)
              /\ PairwiseDistinct(RowWords(callGrid))
              /\ AllIn(ColWords(callGrid), callSet) )

\* C5 witness: a grid that passes symmetry and both membership checks and
\* fails uniqueness alone has been rejected.
C5_Witness ==
    /\ callKind = "isValidMagicSquare"
    /\ Symmetric(callGrid)
    /\ AllIn(RowWords(callGrid), callSet)
    /\ AllIn(ColWords(callGrid), callSet)
    /\ ~PairwiseDistinct(RowWords(callGrid))
    /\ callResult.valid = FALSE

\* the supplied square has a grid of 4 rows of 4 characters
HasFullGrid(sq) ==
    /\ sq.kind = "object"
    /\ sq.grid.kind = "array"
    /\ Len(sq.grid.rows) = GridSize
    /\ \A r \in 1..GridSize : RowIsArrayOf4(sq.grid.rows[r])

\* that grid
SquareGrid(sq) == [r \in 1..GridSize |-> sq.grid.rows[r].cells]

HasError(res, msg) == \E e \in 1..Len(res.errors) : res.errors[e].msg = msg

\* C6: validate(square) never throws, whatever it is given, and returns a
\* result that lists its violations.
C6_ValidateNeverThrows ==
    callKind = "validate" => ~callResult.threw

\* C7: validate runs the four checks of the boolean validator on the
\* supplied grid and reports every one that fails, so it reports no
\* violation only for a grid that isValidMagicSquare accepts.
C7_StructuredValidatorRunsTheFourChecks ==
    (callKind = "validate" /\ HasFullGrid(callSquare)) =>
        /\ ~callResult.threw
        /\ ~Symmetric(SquareGrid(callSquare))
             => HasError(callResult, "Grid is not symmetric")
        /\ ~PairwiseDistinct(RowWords(SquareGrid(callSquare)))
             => HasError(callResult, "All words must be unique (found duplicates)")
        /\ ~AllIn(RowWords(SquareGrid(callSquare)), callSet) => ~callResult.valid
        /\ ~AllIn(ColWords(SquareGrid(callSquare)), callSet) => ~callResult.valid
        /\ callResult.errors = <<>>
             => isValidMagicSquare(SquareGrid(callSquare), callSet)

\* C8: for a supplied grid that is symmetric, with every row in the word
\* set, and two rows reading as the same word, validate reports a
\* uniqueness violation and the result is not valid.
C8_DuplicateRowsReported ==
    ( /\ callKind = "validate"
      /\ HasFullGrid(callSquare)
      /\ Symmetric(SquareGrid(callSquare))
      /\ AllIn(RowWords(SquareGrid(callSquare)), callSet)
      /\ ~PairwiseDistinct(RowWords(SquareGrid(callSquare))) ) =>
        /\ ~callResult.threw
        /\ ~callResult.valid
        /\ HasError(callResult, "All words must be unique (found duplicates)")

\* the position (from 1) of the word w in the duplicate-free sequence set
IndexIn(set, w) == CHOOSE k \in 1..Len(set) : set[k] = w

StartsWith(w, c) == w # <<>> /\ w[1] = c

\* C17: findWordsStartingWith(c, wordSet) returns exactly the words of
\* wordSet whose first character is c, each once, in the set's insertion
\* order, and the empty array when no word matches.
C17_FindWordsIsTheOrderedFilter ==
    callKind = "findWordsStartingWith" =>
        /\ \A x \in 1..Len(callWords) :
             Has(callSet, callWords[x]) /\ StartsWith(callWords[x], callChar)
        /\ \A k \in 1..Len(callSet) :
             StartsWith(callSet[k], callChar) => Has(callWords, callSet[k])
        /\ \A x, y \in 1..Len(callWords) :
             x < y => IndexIn(callSet, callWords[x]) < IndexIn(callSet, callWords[y])
        /\ (\A k \in 1..Len(callSet) : ~StartsWith(callSet[k], callChar))
             => callWords = <<>>

\* C17 witness: a set whose insertion order is not the alphabetical one,
\* with a word that does not start with the character between two that do.
C17_Witness ==
    /\ callKind = "findWordsStartingWith"
    /\ callChar = "A"
    /\ callSet = << <<"A","B","A","A">>, <<"B","A","A","A">>, <<"A","A","A","B">> >>
    /\ callWords = << <<"A","B","A","A">>, <<"A","A","A","B">> >>

----------------------------------------------------------------------------
(* The claims about word-mode feedback *)

\* how many times v occurs in the sequence s
Occurrences(s, v) == Cardinality({ k \in 1..Len(s) : s[k] = v })

Statuses(cells) == [k \in 1..Len(cells) |-> cells[k].status]

\* C11: on a guess and an answer that checkAnswer compares at equal length
\* L (both normalized), the result has L cells, as many 'correct' cells as
\* positions where the two agree, and for every letter v no more cells of
\* letter v marked 'correct' or 'wrong-position' than v has occurrences in
\* the answer.
C11_FeedbackRespectsLetterCounts ==
    LET g == normalize(guess)
        a == normalize(answer)
        cells == fbResult.cells
    IN (fbResult.called /\ Len(g) = Len(a)) =>
        /\ ~fbResult.threw
        /\ Len(cells) = Len(g)
        /\ Cardinality({ k \in 1..Len(cells) : cells[k].status = "correct" })
             = Cardinality({ k \in 1..Len(g) : g[k] = a[k] })
        /\ \A v \in Range(g) \cup Range(a) :
             Cardinality({ k \in 1..Len(cells) :
                             /\ cells[k].char = v
                             /\ g[k] = v
                             /\ cells[k].status \in {"correct", "wrong-position"} })
                <= Occurrences(a, v)

\* C11 witness: a guess with three A against an answer with one A, which
\* is not where the guess has its A's: one A is credited, the others not.
C11_Witness ==
    /\ fbResult.called
    /\ Len(normalize(guess)) = MaxLen /\ Len(normalize(answer)) = MaxLen
    /\ Occurrences(normalize(guess), "A") = 3
    /\ Occurrences(normalize(answer), "A") = 1
    /\ Cardinality({ k \in 1..Len(fbResult.cells) :
                       fbResult.cells[k].status = "wrong-position" }) = 1
    /\ Cardinality({ k \in 1..Len(fbResult.cells) :
                       fbResult.cells[k].status = "correct" }) = 0

\* the letter at position k (from 1) of the guess has more occurrences in
\* the answer than the correct matches and the wrong-position matches left
\* of k have consumed
HasUnconsumed(g, a, cells, k) ==
    Occurrences(a, g[k])
      > Cardinality({ x \in 1..Len(g) : x <= Len(a) /\ g[x] = a[x] /\ g[x] = g[k] })
          + Cardinality({ x \in 1..k - 1 :
                            g[x] = g[k] /\ cells[x].status = "wrong-position" })

\* C12: checkAnswer is the manual multiset accounting: position i is
\* 'correct' iff guess[i] = answer[i]; every other position, left to right,
\* is 'wrong-position' iff its letter still has an unconsumed occurrence in
\* the answer, and 'incorrect' otherwise; ABBA against BABA gives
\* wrong-position, wrong-position, correct, correct.
C12_FeedbackIsMultisetAccounting ==
    LET g == normalize(guess)
        a == normalize(answer)
        cells == fbResult.cells
    IN fbResult.called =>
        /\ Len(cells) = Len(g)
        /\ \A k \in 1..Len(g) :
             /\ cells[k].char = g[k]
             /\ cells[k].position = k - 1
             /\ cells[k].status =
                  IF k <= Len(a) /\ g[k] = a[k] THEN "correct"
                  ELSE IF HasUnconsumed(g, a, cells, k) THEN "wrong-position"
                  ELSE "incorrect"
        /\ (g = <<"A","B","B","A">> /\ a = <<"B","A","B","A">>) =>
             Statuses(cells)
               = <<"wrong-position", "wrong-position", "correct", "correct">>

\* C12 witness: ABBA has been checked against BABA.
C12_Witness ==
    /\ fbResult.called
    /\ guess = <<"A","B","B","A">>
    /\ answer = <<"B","A","B","A">>
    /\ Statuses(fbResult.cells)
         = <<"wrong-position", "wrong-position", "correct", "correct">>

\* C13: word-mode feedback fails with a LengthMismatch condition whenever
\* guess and answer differ in length, and returns no feedback sequence.
C13_LengthMismatchFails ==
    (fbResult.called /\ Len(normalize(guess)) # Len(normalize(answer))) =>
        fbResult.threw

----------------------------------------------------------------------------
(* The claims about grid-mode feedback *)

\* the letter of a grid cell as validateFullGrid compares it: upper case,
\* word-final forms folded
Compared(grid, row, col) == Letter(puzzle, Cell(grid, row, col))

\* cell (row, col) of a feedback sequence in row-major order
FeedbackAt(feedback, row, col) == feedback[GridSize * row + col + 1]

\* C14: validateFullGrid returns 16 cells in row-major order; the cell of
\* (row, col) is 'correct' iff the player's letter there equals the
\* solution's, otherwise 'wrong-position' iff that letter occurs in the
\* solution's row `row` or column `col`, otherwise 'incorrect': a function
\* of that cell's letter and of the solution's row and column alone.
C14_GridFeedbackIsLocalLookup ==
    lastCall.op = "validateFullGrid" =>
        /\ Len(lastCall.result.feedback) = GridSize * GridSize
        /\ \A row, col \in 0..GridSize - 1 :
             LET cell == FeedbackAt(lastCall.result.feedback, row, col)
                 mine == Compared(state.playerGrid, row, col)
             IN /\ cell.row = row /\ cell.col = col
                /\ cell.playerLetter = mine
                /\ cell.correctLetter = Compared(puzzle.grid, row, col)
                /\ cell.correct = (cell.status = "correct")
                /\ cell.status =
                     IF mine = Compared(puzzle.grid, row, col) THEN "correct"
                     ELSE IF \/ \E c \in 0..GridSize - 1 : Compared(puzzle.grid, row, c) = mine
                             \/ \E r \in 0..GridSize - 1 : Compared(puzzle.grid, r, col) = mine
                          THEN "wrong-position"
                     ELSE "incorrect"

\* C14 witness: a check has marked a typed letter 'incorrect' although the
\* solution holds that letter in another row and column, and the player's
\* grid holds a cell marked 'correct' as well.
C14_Witness ==
    /\ lastCall.op = "validateFullGrid"
    /\ \E row, col \in 0..GridSize - 1 :
         LET cell == FeedbackAt(lastCall.result.feedback, row, col)
         IN /\ cell.status = "incorrect"
            /\ cell.playerLetter # ""
            /\ \E r, c \in 0..GridSize - 1 : Compared(puzzle.grid, r, c) = cell.playerLetter
    /\ \E row, col \in 0..GridSize - 1 :
         FeedbackAt(lastCall.result.feedback, row, col).status = "correct"

\* all 16 player cells equal the solution cells
AllCellsEqual(grid) ==
    \A row, col \in 0..GridSize - 1 :
        Compared(grid, row, col) = Compared(puzzle.grid, row, col)

\* C15: a validateFullGrid call raises the attempt counter by exactly 1;
\* when all 16 player cells equal the solution cells it returns correct and
\* gameOver true, reveals all four words and sets the status 'completed';
\* otherwise it returns both false and leaves the status and the revealed
\* words as they were.
C15_GridCheckCompletesExactlyOnFullMatch ==
    [][lastCall'.op = "validateFullGrid" =>
        /\ state'.attempts = state.attempts + 1
        /\ lastCall'.result.attempts = state.attempts + 1
        /\ lastCall'.result.correct = AllCellsEqual(state.playerGrid)
        /\ lastCall'.result.gameOver = AllCellsEqual(state.playerGrid)
        /\ AllCellsEqual(state.playerGrid) =>
             /\ \A position \in 0..GridSize - 1 : Has(state'.revealedWords, position)
             /\ Len(state'.revealedWords) = GridSize
             /\ state'.gameStatus = "completed"
        /\ ~AllCellsEqual(state.playerGrid) =>
             /\ state'.revealedWords = state.revealedWords
             /\ state'.gameStatus = state.gameStatus
        /\ state'.playerGrid = state.playerGrid
    ]_vars

\* C15 witness: a second check, after a failed one, found the full match
\* and completed the game.
C15_Witness ==
    /\ lastCall.op = "validateFullGrid"
    /\ lastCall.result.correct /\ lastCall.result.gameOver
    /\ state.attempts = 2
    /\ state.gameStatus = "completed"
    /\ Len(state.revealedWords) = GridSize

----------------------------------------------------------------------------
(* The claims about hints *)

RiddleIds == { puzzle.riddles[k].id : k \in 1..Len(puzzle.riddles) }

\* C18: from a new or reset game with 4 riddles, in a sequence of
\* useRandomHint calls, each of the first two calls returns a riddle whose
\* hint was not revealed yet and lowers hintsRemaining by one (2, 1, 0);
\* every later call returns null and changes nothing; hintsRemaining is
\* never negative.
C18_TwoRandomHintsThenNull ==
    /\ [](puzzle # NoPuzzle =>
            /\ state.hintsRemaining \in 0..2
            /\ state.hintsRemaining + Len(state.hintsRevealed) = 2)
    /\ [][lastCall'.op = "useRandomHint" =>
            IF Len(state.hintsRevealed) < 2
            THEN /\ ~lastCall'.riddle.isNull
                 /\ lastCall'.riddle.id \in RiddleIds
                 /\ lastCall'.riddle.id \notin Range(state.hintsRevealed)
                 /\ state'.hintsRevealed = Append(state.hintsRevealed, lastCall'.riddle.id)
                 /\ state'.hintsRemaining + 1 = state.hintsRemaining
            ELSE /\ lastCall'.riddle.isNull
                 /\ state' = state
                 /\ localStorage' = localStorage
       ]_vars

\* C18 witness: a third call has returned null, two hints being revealed
\* and none remaining.
C18_Witness ==
    /\ lastCall.op = "useRandomHint"
    /\ lastCall.riddle.isNull
    /\ Len(state.hintsRevealed) = 2
    /\ state.hintsRemaining = 0

\* C19: after any sequence of revealHint and useRandomHint calls no riddle
\* id is in hintsRevealed twice: revealing a revealed hint leaves the list
\* as it was, and useRandomHint never returns a riddle whose hint is
\* revealed already.
C19_HintsRevealedHasNoRepeats ==
    /\ [](\A x, y \in 1..Len(state.hintsRevealed) :
            x # y => state.hintsRevealed[x] # state.hintsRevealed[y])
    /\ [][(lastCall'.op = "revealHint" /\ lastCall'.arg[1] \in Range(state.hintsRevealed))
            => state'.hintsRevealed = state.hintsRevealed]_vars
    /\ [][(lastCall'.op = "useRandomHint" /\ ~lastCall'.riddle.isNull)
            => lastCall'.riddle.id \notin Range(state.hintsRevealed)]_vars

\* C19 witness: a hint revealed by useRandomHint has been revealed again by
\* revealHint, and the list holds it once.
C19_Witness ==
    /\ lastCall.op = "revealHint"
    /\ state.hintsRemaining = 1
    /\ state.hintsRevealed = lastCall.arg

\* C20: a game is limited to 2 hints: at most 2 riddles have their hint
\* revealed, whatever was called since construction or reset.
C20_AtMostTwoHintsRevealed ==
    Cardinality({ id \in RiddleIds : id \in Range(state.hintsRevealed) }) <= 2

----------------------------------------------------------------------------
(* The grids that reach the gate of buildMagicSquare *)

\* the pairs of cells that no statement of lines 77-107 compares: row 3 is
\* placed with only its first letter known to fit
UncheckedPairs == { <<3, 1>>, <<1, 3>>, <<3, 2>>, <<2, 3>> }

\* C28 as stated: every grid handed to the gate of line 109 is symmetric
\* already, so that the gate never rejects a grid for asymmetry.
C28_GateNeverRejectsForAsymmetry ==
    callKind = "buildMagicSquare" =>
        \A g \in callGated : Symmetric(g)

\* C28 amended: every grid handed to the gate has its four rows placed, row 0
\* being the first word, and agrees on every pair of cells but (3,1)/(1,3)
\* and (3,2)/(2,3): only there can the gate find an asymmetry.
C28_GatedGridsAgreeOnCheckedCells ==
    callKind = "buildMagicSquare" =>
        \A g \in callGated :
            /\ IsFullGrid(g)
            /\ \A c \in 0..GridSize - 1 : Cell(g, 0, c) = CharAt(callFirst, c)
            /\ \A r, c \in 0..GridSize - 1 :
                 Cell(g, r, c) # Cell(g, c, r) => <<r, c>> \in UncheckedPairs

\* a search in which the gate rejected an asymmetric grid and a later grid
\* passed it
C28_Witness ==
    /\ callKind = "buildMagicSquare"
    /\ callBuilt # Null
    /\ \E g \in callGated : ~Symmetric(g)
    /\ \E g \in callGated : Symmetric(g)

----------------------------------------------------------------------------
(* The squares of a list, whatever the shuffle *)

\* the word of index x may stand in row r under the rows already chosen
\* (above, the indices of rows 0..r-1): it is none of them and its letters
\* 0..r-1 are the letters r of those rows
Fits(list, above, x) ==
    \A j \in 1..Len(above) :
        /\ x # above[j]
        /\ CharAt(list[x], j - 1) = CharAt(list[above[j]], Len(above))

\* the triples <<b, c, d>> of indices that complete the word of index a to a
\* symmetric square of four different words of the duplicate-free list
Completions(list, a) ==
    UNION { UNION { { <<b, c, d>> : d \in { x \in 1..Len(list) : Fits(list, <<a, b, c>>, x) } } :
                    c \in { x \in 1..Len(list) : Fits(list, <<a, b>>, x) } } :
            b \in { x \in 1..Len(list) : Fits(list, <<a>>, x) } }

\* t comes before u when the second word comes earlier in the list, then the
\* third, then the fourth
Precedes(t, u) ==
    \/ t[1] < u[1]
    \/ t[1] = u[1] /\ t[2] < u[2]
    \/ t[1] = u[1] /\ t[2] = u[2] /\ t[3] < u[3]

\* the first of the completions S in list order
First(S) == CHOOSE t \in S : \A u \in S : u = t \/ Precedes(t, u)

\* the squares of the first completions of the words of the list, for the
\* completions given for each index
SquaresOf(list, completions) ==
    { LET t == First(completions[a])
          ws == <<list[a], list[t[1]], list[t[2]], list[t[3]]>>
      IN [grid |-> GridOfWords(ws), words |-> ws] :
      a \in { x \in 1..Len(list) : completions[x] # {} } }

\* for each word that is row 0 of a valid square, its first square in list
\* order: a function of the list alone
SquaresInListOrder(list) ==
    SquaresOf(list, [a \in 1..Len(list) |-> Completions(list, a)])

\* C27: for a duplicate-free list and a limit M of at least the number of
\* words, the squares returned are, for every shuffle, the same set: for each
\* word that begins a valid square, the square whose second, third and
\* fourth words come first in word-list order.
C27_ReturnedSetIgnoresShuffle ==
    (pc = "done" /\ maxResults >= Len(words)
        /\ DuplicateFree(words) /\ AllFourLetters(words)) =>
        Range(results) = SquaresInListOrder(words)

\* C27 witness: a shuffle changed the order in which two squares were found,
\* and one of the first words has two valid squares to choose from.
C27_Witness ==
    /\ pc = "done"
    /\ maxResults >= Len(words)
    /\ DuplicateFree(words) /\ AllFourLetters(words)
    /\ shuffledWords # words
    /\ Len(results) >= 2
    /\ \E x, y \in 1..Len(words) :
         /\ x < y
         /\ results[1].words[1] = words[y]
         /\ results[2].words[1] = words[x]
    /\ \E a \in 1..Len(words) : Cardinality(Completions(words, a)) >= 2

----------------------------------------------------------------------------
(* Retrying with backoff *)

\* the last call of fn that settled
LastCall == fnCalls[Len(fnCalls)]

\* C22: retryWithBackoff calls fn one call at a time, at most maxRetries
\* times and never again after a success; it ends only after a success or
\* after maxRetries calls; it resolves with the value of the first success,
\* and rejects, with the error of the last call, exactly when maxRetries
\* calls have failed; the k-th wait lasts baseDelay * 2^(k-1), attempt i
\* starts only after the waits of the i failures before it, and the last of
\* maxRetries failures is followed by no wait.
C22_RetriesWithExponentialBackoff ==
    /\ fnPending \in {0, 1}
    /\ fnPending = 1 <=> retryPc = "awaitFn"
    /\ Len(fnCalls) + fnPending <= maxRetries
    /\ \A k \in 1..Len(fnCalls) : k < Len(fnCalls) => ~fnCalls[k].ok
    /\ retryPc = "done" => Len(fnCalls) = maxRetries \/ LastCall.ok
    /\ (Len(fnCalls) >= 1 /\ LastCall.ok) =>
          /\ retryPc = "done"
          /\ retryResult = Settled("resolved", Len(fnCalls), LastCall.what)
    /\ (Len(fnCalls) >= 1 /\ Len(fnCalls) = maxRetries /\ ~LastCall.ok) =>
          /\ retryPc = "done"
          /\ retryResult = Settled("rejected", maxRetries, LastCall.what)
    /\ retryResult.kind = "rejected" =>
          /\ Len(fnCalls) = maxRetries
          /\ \A k \in 1..Len(fnCalls) : ~fnCalls[k].ok
    /\ \A k \in 1..Len(delays) : delays[k] = baseDelay * Pow2(k - 1)
    /\ Len(delays) =
          Cardinality({ k \in 1..Len(fnCalls) : ~fnCalls[k].ok /\ k < maxRetries })
    /\ retryPc = "awaitFn" => Len(delays) = Len(fnCalls) /\ retryI = Len(fnCalls)

\* C22 witness: three calls failed, the last with another error than the
\* first; the promise is rejected with the last error after waits of 1000 and
\* 2000 ms.
C22_Witness ==
    /\ retryPc = "done"
    /\ maxRetries = 3
    /\ Len(fnCalls) = 3
    /\ fnCalls[1].what # fnCalls[3].what
    /\ retryResult = Settled("rejected", 3, fnCalls[3].what)
    /\ delays = <<1000, 2000>>

----------------------------------------------------------------------------
(* The claims about submitAnswer *)

\* the answer of the riddle that the last submitAnswer call was about, as
\* submitAnswer compares it
AnswerCompared(call) == toUpperCase(FoundRiddles(puzzle, call.arg[1])[1].answer)

\* C23: in a run of incorrect submitAnswer calls on a fresh game the first
\* two calls return revealed = false with attemptsRemaining 2 and 1, and the
\* third returns revealed = true with autoRevealed and the correct answer.
C23_ThirdFailedAttemptReveals ==
    [][(/\ lastCall'.op = "submitAnswer"
        /\ ~lastCall'.result.correct
        /\ state.revealedWords = <<>> /\ state.score = 0 /\ state.attempts <= 2)
        => IF state.attempts <= 1
           THEN /\ ~lastCall'.result.revealed
                /\ "attemptsRemaining" \in DOMAIN lastCall'.result
                /\ lastCall'.result.attemptsRemaining + state.attempts = 2
           ELSE /\ lastCall'.result.revealed
                /\ "autoRevealed" \in DOMAIN lastCall'.result
                /\ lastCall'.result.autoRevealed
                /\ lastCall'.result.correctAnswer = AnswerCompared(lastCall')]_vars

\* C26: in the feedback that submitAnswer returns for a 4-letter guess, for
\* every letter v, no more positions holding v are marked 'correct' or
\* 'wrong-position' than v has occurrences in the answer.
C26_SubmitFeedbackRespectsLetterCounts ==
    (lastCall.op = "submitAnswer" /\ Len(trim(toUpperCase(lastCall.arg[2]))) = GridSize) =>
        \A v \in Range(trim(toUpperCase(lastCall.arg[2]))) :
            Cardinality({ k \in 1..Len(lastCall.result.feedback) :
                            /\ lastCall.result.feedback[k].char = v
                            /\ lastCall.result.feedback[k].status
                                 \in {"correct", "wrong-position"} })
              <= Occurrences(AnswerCompared(lastCall), v)

----------------------------------------------------------------------------
(* The claims about the end of the game *)

\* every word position 0..3 is in revealedWords
AllRevealed == \A position \in 0..GridSize - 1 : Has(state.revealedWords, position)

\* C29: whatever updateCell, submitAnswer, validateFullGrid, revealHint and
\* useRandomHint calls were made on a game, its status is 'completed' if and
\* only if all four word positions are revealed, and no call but reset takes
\* a completed game back to 'playing'.
C29_CompletedIffAllRevealed ==
    /\ [](puzzle # NoPuzzle =>
            /\ state.gameStatus \in {"playing", "completed"}
            /\ state.gameStatus = "completed" <=> AllRevealed)
    /\ [][(state.gameStatus = "completed" /\ lastCall'.op # "reset")
            => state'.gameStatus = "completed"]_vars

\* C29 witness: the fourth correct answer completed a game in which cells
\* were typed and a hint was revealed.
C29_Witness ==
    /\ lastCall.op = "submitAnswer"
    /\ lastCall.result.correct
    /\ state.gameStatus = "completed"
    /\ Len(state.revealedWords) = GridSize
    /\ state.attempts = GridSize
    /\ Extent(state.playerGrid) > 0
    /\ state.hintsRevealed # <<>>

\* C30: after every validateFullGrid or submitAnswer call the returned
\* gameOver flag is true exactly when the game status is 'completed' after
\* that call, also when the game was completed before the call.
C30_GameOverFlagIsTheStatus ==
    lastCall.op \in {"validateFullGrid", "submitAnswer"} =>
        (lastCall.result.gameOver <=> state.gameStatus = "completed")

----------------------------------------------------------------------------
(* Saving and loading *)

----------------------------------------------------------------------------
(* The grid on screen *)

\* C24: on a puzzle whose solution grid is symmetric, after any sequence
\* of key presses, backspaces, clear-all actions and failed checks with
\* their clear steps, the player grid is symmetric:
\* playerGrid[r][c] = playerGrid[c][r] for all r, c
C24_AutoFillKeepsGridSymmetric ==
    (puzzle # NoPuzzle /\ Symmetric(puzzle.grid)) => Symmetric(state.playerGrid)

\* a clear step has emptied a cell and its mirror cell and kept the letters
\* of another pair
C24_Witness ==
    /\ lastCall.op = "autoClear"
    /\ Symmetric(puzzle.grid)
    /\ Cell(state.playerGrid, GridSize - 1, GridSize - 2) = ""
    /\ Cell(state.playerGrid, GridSize - 2, GridSize - 1) = ""
    /\ Cell(state.playerGrid, 0, 1) # ""
    /\ Cell(state.playerGrid, 1, 0) # ""

\* the cell holds the solution's letter
HoldsSolutionLetter(pz, st, row, col) ==
    /\ Cell(st.playerGrid, row, col) # ""
    /\ Letter(pz, Cell(st.playerGrid, row, col)) = Letter(pz, Cell(pz.grid, row, col))

\* C25: the delayed clear step of a failed check never empties a cell that
\* holds the solution letter at the moment the step runs, whatever keys,
\* clear-all actions and checks came between the check and the step
C25_ClearStepKeepsCorrectLetters ==
    [][lastCall'.op = "autoClear" =>
          \A row, col \in 0..GridSize - 1 :
              HoldsSolutionLetter(puzzle, state, row, col) =>
                  Cell(state'.playerGrid, row, col) = Cell(state.playerGrid, row, col)]_vars

====
